---- MODULE Spec2Model ----
(***************************************************************************)
(* Voice-agent performance optimiser: the auto-optimisation cycle          *)
(* (CycleOrchestratorService), the status state machines, the pass-rate    *)
(* calculator, the LLM client's retry, the line diff, the result evaluator *)
(* and the test-run routes, modelled from the TypeScript sources.          *)
(*                                                                         *)
(* Node.js runs one callback at a time: code between two `await`s is one   *)
(* atomic step.  The loop therefore rests only where it awaits the         *)
(* executor, the evaluator or the optimizer; every action below is one     *)
(* such continuation, or one whole public method.                          *)
(***************************************************************************)
EXTENDS Integers, Sequences, FiniteSets, Bags, TLC

VARIABLES
    cycle,        \* the persisted CycleRecord row
    stateFlag,    \* stateFlags.get(cycleId)
    loop,         \* locals of the runCycleLoop / executeTestRun invocation
    testRuns,     \* TestRun rows with their TestCaseResult / CriterionResult rows
    optRecords,   \* OptimizationRecord rows
    agentPrompt,  \* Agent.currentPrompt
    events,       \* events emitted for the cycle id, in order
    hist,         \* history: calls made and requests accepted
    sm,           \* inputs and result of the status state machine functions
    rb,           \* one LLM client operation: retryWithBackoff and the parse after it
    pr,           \* argument and result of calculatePassRate
    df,           \* arguments, locals and result of computeDiff
    ev,           \* one ResultEvaluatorService.evaluateAllCriteria invocation
    rq,           \* locals of the HTTP handlers in flight (test run, retry)
    mc,           \* two cycles on different agents: the rows and map entries of each
    cb,           \* argument rows and result of ComparisonBuilderService.buildComparison
    su,           \* the stored TestSuite of the test-suites routes
    ex            \* one executeTestCase call in flight

vars ==
    <<cycle, stateFlag, loop, testRuns, optRecords, agentPrompt, events, hist,
      sm, rb, pr, df, ev, rq, mc, cb, su, ex>>

\* the variables of the cycle, and those of the separately specified functions
cycleVars == <<cycle, stateFlag, loop, testRuns, optRecords, agentPrompt, events, hist>>
pureVars == <<sm, rb, pr, df, ev, rq, mc, cb, su, ex>>
notSM == <<cycleVars, rb, pr, df, ev, rq, mc, cb, su, ex>>
notRetry == <<cycleVars, sm, pr, df, ev, rq, mc, cb, su, ex>>
notRate == <<cycleVars, sm, rb, df, ev, rq, mc, cb, su, ex>>
notDiff == <<cycleVars, sm, rb, pr, ev, rq, mc, cb, su, ex>>
notEval == <<cycleVars, sm, rb, pr, df, rq, mc, cb, su, ex>>
notRoutes == <<cycle, stateFlag, loop, optRecords, events, hist, sm, rb, pr, df, ev, mc, cb, su, ex>>
notOptimize == <<cycle, stateFlag, loop, testRuns, events, hist, sm, rb, pr, df, ev, mc, cb, su, ex>>

----------------------------------------------------------------------------
(* Bounds and inputs                                                       *)

MaxCyclesBound == 2

\* config.targetThreshold values offered to startCycle, as <<num, den>>
Thresholds == {<<1, 2>>, <<1, 1>>}

\* the suite read by getTestCases: two cases with one success criterion each
TestCases ==
    << [id |-> "tc1", successCriteria |-> <<"c1">>],
       [id |-> "tc2", successCriteria |-> <<"c2">>] >>

\* what llmService.evaluateCriterion resolves with during a test run
LoopReplies ==
    { [passed |-> TRUE, explanation |-> <<"x">>],
      [passed |-> FALSE, explanation |-> <<" ">>] }

\* the revised prompts the LLM may return for a prompt
RevisedPrompts(original) == {original, original + 1}

----------------------------------------------------------------------------
(* Status state machines (database.ts 179-209)                             *)

OptimizationStatus == {"generated", "accepted", "rejected"}
CycleStatus == {"running", "paused", "completed", "cancelled"}

OPTIMIZATION_TRANSITIONS ==
    [c \in OptimizationStatus |->
        CASE c = "generated" -> {"accepted", "rejected"}
          [] c = "accepted"  -> {}
          [] c = "rejected"  -> {}]

CYCLE_TRANSITIONS_Reopen ==
    [c \in CycleStatus |->
        CASE c = "running"   -> {"paused", "cancelled", "completed"}
          [] c = "paused"    -> {"running", "cancelled"}
          [] c = "completed" -> {"running"}
          [] c = "cancelled" -> {}]

CYCLE_TRANSITIONS ==
    [c \in CycleStatus |->
        CASE c = "running"   -> {"paused", "cancelled", "completed"}
          [] c = "paused"    -> {"running", "cancelled"}
          [] c = "completed" -> {}
          [] c = "cancelled" -> {}]

\* the result of a call: the value returned, or the fact that it threw
Returned(v) == [threw |-> FALSE, value |-> v]
Threw == [threw |-> TRUE, value |-> "InvalidTransition"]

transitionOptimizationStatus_SelfOk(current, next) ==
    IF next \in OPTIMIZATION_TRANSITIONS[current] \/ next = current
    THEN Returned(next) ELSE Threw

transitionOptimizationStatus(current, next) ==
    IF next \notin OPTIMIZATION_TRANSITIONS[current] THEN Threw ELSE Returned(next)

transitionCycleStatus(current, next) ==
    IF next \notin CYCLE_TRANSITIONS[current] THEN Threw ELSE Returned(next)

----------------------------------------------------------------------------
(* Pass rate (utils/pass-rate.ts); a rate is a reduced fraction <<n, d>>    *)

RECURSIVE Gcd(_, _)
Gcd(a, b) == IF b = 0 THEN a ELSE Gcd(b, a % b)

Rate(n, d) == LET g == Gcd(n, d) IN <<n \div g, d \div g>>
ZeroRate == <<0, 1>>
NoRate == <<>>          \* SQL NULL / an absent event field

RateGE(a, b) == a[1] * b[2] >= b[1] * a[2]

RECURSIVE FlatMapCriteria(_)
FlatMapCriteria(results) ==
    IF results = <<>> THEN <<>>
    ELSE Head(results).criterionResults \o FlatMapCriteria(Tail(results))

\* calculatePassRate, had it counted the criterion results of every case
calculatePassRate_NoFilter(testCaseResults) ==
    LET allCriteria == FlatMapCriteria(testCaseResults)
        passed == Len(SelectSeq(allCriteria, LAMBDA c : c.passed))
    IN  IF Len(allCriteria) = 0 THEN ZeroRate ELSE Rate(passed, Len(allCriteria))

calculatePassRate(testCaseResults) ==
    LET completedResults == SelectSeq(testCaseResults, LAMBDA r : r.status = "completed")
        allCriteria == FlatMapCriteria(completedResults)
        passed == Len(SelectSeq(allCriteria, LAMBDA c : c.passed))
    IN  IF Len(allCriteria) = 0 THEN ZeroRate ELSE Rate(passed, Len(allCriteria))

----------------------------------------------------------------------------
(* The program state as one record, so that the synchronous parts of a     *)
(* handler compose as functions from state to state.                       *)

Cur == [cycle |-> cycle, stateFlag |-> stateFlag, loop |-> loop,
        testRuns |-> testRuns, optRecords |-> optRecords,
        agentPrompt |-> agentPrompt, events |-> events, hist |-> hist]

\* the handler's step is over: s is the state it leaves
Commit(s) ==
    \E t \in {s} :
        /\ cycle' = t.cycle
        /\ stateFlag' = t.stateFlag
        /\ loop' = t.loop
        /\ testRuns' = t.testRuns
        /\ optRecords' = t.optRecords
        /\ agentPrompt' = t.agentPrompt
        /\ events' = t.events
        /\ hist' = t.hist

\* sequencing: the statements F run in the state the statements before left
Then(s, F(_)) == CHOOSE r \in {F(t) : t \in {s}} : TRUE

NoCycle ==
    [exists |-> FALSE, cycleCount |-> 0, startingPassRate |-> ZeroRate,
     endingPassRate |-> ZeroRate, targetThreshold |-> ZeroRate, maxCycles |-> 0,
     status |-> "none", testRunIds |-> <<>>, optimizationIds |-> <<>>]

NoRun == [testRunId |-> 0, prompt |-> 0, caseIdx |-> 0, allResults |-> <<>>,
          result |-> <<>>, sent |-> 0]

NoLoop ==
    [pc |-> "none", config |-> [targetThreshold |-> ZeroRate, maxCycles |-> 0],
     cycleCount |-> 0, startingPassRate |-> ZeroRate, currentPassRate |-> ZeroRate,
     testRunIds |-> <<>>, optimizationIds |-> <<>>, run |-> NoRun]

NoHist == [optCalls |-> 0, requested |-> FALSE, cancelIter |-> 0, resumed |-> FALSE,
           lastCall |-> "none"]

Pending == [threw |-> FALSE, value |-> "pending"]

SMCall(current, next) == [current |-> current, next |-> next, result |-> Pending]

SMIdle == [cyc |-> SMCall("running", "running"), opt |-> SMCall("generated", "generated")]

\* calculatePassRate has not been called
RateIdle == [pc |-> "idle", testCaseResults |-> <<>>, result |-> NoRate]

\* computeDiff has not been called
DiffIdle ==
    [pc |-> "idle", original |-> <<>>, revised |-> <<>>, originalLines |-> <<>>,
     revisedLines |-> <<>>, lcs |-> <<>>, oi |-> 0, ri |-> 0, li |-> 0, changes |-> <<>>]

\* evaluateAllCriteria has not been called
EvalIdle == [pc |-> "idle", criteria |-> <<>>, replies |-> <<>>, results |-> <<>>]

\* no request is being handled
RoutesIdle ==
    [run |-> [pc |-> "idle", testRunId |-> 0, prompt |-> 0, caseIdx |-> 0,
              allResults |-> <<>>, result |-> <<>>, sent |-> 0],
     retry |-> [pc |-> "idle", testRunId |-> 0, caseIdx |-> 0, result |-> <<>>,
                calls |-> 0, sent |-> 0],
     optimize |-> [pc |-> "idle", testRunId |-> 0, prompt |-> 0, calls |-> 0,
                   response |-> "none"],
     apply |-> [id |-> 0, response |-> "none"]]

\* the ids of two cycles started for two different agents
CycleIds == {1, 2}

\* no cycle has been started: per cycle id (or its agent's id) no CycleRecord
\* row, no stateFlags entry, no loop, no TestRun or OptimizationRecord rows,
\* no event, and the agents' initial prompts
TwoIdle ==
    [cycle |-> [c \in CycleIds |-> NoCycle],
     stateFlag |-> [c \in CycleIds |-> "none"],
     loop |-> [c \in CycleIds |-> NoLoop],
     testRuns |-> [c \in CycleIds |-> <<>>],
     optRecords |-> [c \in CycleIds |-> <<>>],
     agentPrompt |-> [c \in CycleIds |-> 0],
     events |-> [c \in CycleIds |-> <<>>]]

\* buildComparison has not been called
CmpIdle == [pc |-> "idle", runs |-> <<>>, improvements |-> <<>>, regressions |-> <<>>,
            testRunMetrics |-> <<>>]

\* no TestSuite row yet, no request answered
SuiteIdle == [stored |-> FALSE, testCases |-> EmptyBag, response |-> 0]

\* executeTestCase has not been called
ExecIdle ==
    [pc |-> "idle", userInputSequence |-> <<>>, agentResponses |-> <<>>, sent |-> <<>>,
     result |-> [status |-> "", agentResponses |-> <<>>, criterionResults |-> <<>>,
                 errorMessage |-> ""]]

\* no client operation has been started
RetryIdle ==
    [pc |-> "idle", maxRetries |-> 0, initialDelayMs |-> 0, attempt |-> 0,
     lastError |-> "", result |-> "", calls |-> 0, errors |-> <<>>, replies |-> <<>>,
     delays |-> <<>>, op |-> "idle", opResult |-> ""]

Event(type, cycleNumber, passRate, status) ==
    [type |-> type, cycleNumber |-> cycleNumber, passRate |-> passRate, status |-> status]

\* emit (cycle-orchestrator.ts 275-280): every listener is called with the event
emit(s, event) == [s EXCEPT !.events = Append(@, event)]

\* updateCycleRecord (cycle-orchestrator.ts 219-228)
updateCycleRecord(s, cycleCount, startingPassRate, endingPassRate, status, testRunIds, optimizationIds) ==
    [s EXCEPT !.cycle = [@ EXCEPT !.cycleCount = cycleCount,
                                  !.startingPassRate = startingPassRate,
                                  !.endingPassRate = endingPassRate,
                                  !.status = status,
                                  !.testRunIds = testRunIds,
                                  !.optimizationIds = optimizationIds]]

\* the loop returns: its locals are dead from here on
LoopReturns(s) == [s EXCEPT !.loop.pc = "done", !.loop.run = NoRun]

\* the finishing paths, had the loop gone on to emit after its finished event
Finish_EmitsOn(s, status, passRate) ==
    LET l == s.loop IN
    LoopReturns(
        emit(emit(updateCycleRecord(s, l.cycleCount, l.startingPassRate, l.currentPassRate,
                                    status, l.testRunIds, l.optimizationIds),
                  Event("finished", 0, passRate, status)),
             Event("error", 0, NoRate, "")))

\* lines 76-78, 81-83, 101-103, 127-128: persist the final status, emit finished
Finish(s, status, passRate) ==
    LET l == s.loop IN
    LoopReturns(
        emit(updateCycleRecord(s, l.cycleCount, l.startingPassRate, l.currentPassRate,
                               status, l.testRunIds, l.optimizationIds),
             Event("finished", 0, passRate, status)))

\* the .catch, had it also closed the record as completed
LoopThrows_MarkCompleted(s) ==
    LET l == s.loop IN
    emit(updateCycleRecord([s EXCEPT !.loop.pc = "error"],
                           l.cycleCount, l.startingPassRate, l.currentPassRate,
                           "completed", l.testRunIds, l.optimizationIds),
         Event("error", 0, NoRate, ""))

\* startCycle's .catch (lines 52-54): the loop's promise rejected
LoopThrows(s) ==
    emit([s EXCEPT !.loop.pc = "error"], Event("error", 0, NoRate, ""))

\* the while condition of line 72
LoopGuard_Inclusive(cycleCount, maxCycles) == cycleCount <= maxCycles

LoopGuard(cycleCount, maxCycles) == cycleCount < maxCycles

\* line 100
ThresholdMet_Strict(passRate, targetThreshold) ==
    RateGE(passRate, targetThreshold) /\ passRate # targetThreshold

ThresholdMet(passRate, targetThreshold) == RateGE(passRate, targetThreshold)

\* line 107: the optimizer is skipped in the last cycle
OptimizeAllowed_Always(cycleCount, maxCycles) == TRUE

OptimizeAllowed(cycleCount, maxCycles) == cycleCount < maxCycles

\* getResultsForRun (lines 199-217): criterion results of the run's completed cases
getResultsForRun(s, testRunId) ==
    LET rows == FlatMapCriteria(
                    SelectSeq(s.testRuns[testRunId].results,
                              LAMBDA r : r.status = "completed"))
    IN  [failures |-> SelectSeq(rows, LAMBDA c : ~c.passed),
         passes   |-> SelectSeq(rows, LAMBDA c : c.passed)]

\* line 111, had the optimizer been called whatever the failures are
HasFailures_Any(failures) == TRUE

\* line 111: failures.length > 0
HasFailures(failures) == Len(failures) > 0

RECURSIVE LoopWhile(_)

\* lines 99-123, had the optimization step come before the threshold check
AfterTestRunComplete_OptimizeFirst(s, testRunId) ==
    LET l == s.loop IN
    IF OptimizeAllowed(l.cycleCount, l.config.maxCycles)
          /\ HasFailures(getResultsForRun(s, testRunId).failures)
    THEN [s EXCEPT !.loop.pc = "optimize",
                   !.loop.run = [NoRun EXCEPT !.testRunId = testRunId,
                                              !.prompt = s.agentPrompt],
                   !.hist.optCalls = @ + 1]
    ELSE IF ThresholdMet(l.currentPassRate, l.config.targetThreshold)
         THEN Finish(s, "completed", l.currentPassRate)
         ELSE LoopWhile(s)

\* lines 99-123: the threshold check and the optimization step
AfterTestRunComplete(s, testRunId) ==
    LET l == s.loop IN
    IF ThresholdMet(l.currentPassRate, l.config.targetThreshold)
    THEN Finish(s, "completed", l.currentPassRate)
    ELSE IF OptimizeAllowed(l.cycleCount, l.config.maxCycles)
              /\ HasFailures(getResultsForRun(s, testRunId).failures)
         THEN \* line 112: await optimizer.optimizePrompt(...)
              [s EXCEPT !.loop.pc = "optimize",
                        !.loop.run = [NoRun EXCEPT !.testRunId = testRunId,
                                                   !.prompt = s.agentPrompt],
                        !.hist.optCalls = @ + 1]
         ELSE LoopWhile(s)

\* lines 91-97, had the first measured pass rate become the starting pass rate
AfterTestRun_CaptureFirst(s, testRunId) ==
    LET overallPassRate == s.testRuns[testRunId].overallPassRate
        currentPassRate == IF overallPassRate = NoRate THEN ZeroRate ELSE overallPassRate
    IN  Then(emit([s EXCEPT !.loop.testRunIds = Append(@, testRunId),
                            !.loop.currentPassRate = currentPassRate,
                            !.loop.startingPassRate =
                                IF s.loop.testRunIds = <<>> THEN currentPassRate ELSE @,
                            !.loop.run = NoRun],
                  Event("test_run_complete", s.loop.cycleCount, currentPassRate, "")),
             LAMBDA t : AfterTestRunComplete(t, testRunId))

\* lines 91-97: executeTestRun has returned testRunId
AfterTestRun(s, testRunId) ==
    LET overallPassRate == s.testRuns[testRunId].overallPassRate
        currentPassRate == IF overallPassRate = NoRate THEN ZeroRate ELSE overallPassRate
    IN  Then(emit([s EXCEPT !.loop.testRunIds = Append(@, testRunId),
                            !.loop.currentPassRate = currentPassRate,
                            !.loop.run = NoRun],
                  Event("test_run_complete", s.loop.cycleCount, currentPassRate, "")),
             LAMBDA t : AfterTestRunComplete(t, testRunId))

\* lines 172-177, had the progress of the cycle been persisted after every run
executeTestRunEnd_PersistProgress(s) ==
    LET r == s.loop.run
        passRate == calculatePassRate(r.allResults)
    IN  Then([s EXCEPT !.testRuns[r.testRunId].overallPassRate = passRate,
                       !.testRuns[r.testRunId].status = "completed",
                       !.cycle.cycleCount = s.loop.cycleCount,
                       !.cycle.testRunIds = Append(s.loop.testRunIds, r.testRunId)],
             LAMBDA t : AfterTestRun(t, r.testRunId))

\* lines 172-177: the run's pass rate is stored and the run is completed
executeTestRunEnd(s) ==
    LET r == s.loop.run
        passRate == calculatePassRate(r.allResults)
    IN  Then([s EXCEPT !.testRuns[r.testRunId].overallPassRate = passRate,
                       !.testRuns[r.testRunId].status = "completed"],
             LAMBDA t : AfterTestRun(t, r.testRunId))

\* the prompt argument, had the agent's row been read again for every test case
ExecutorPrompt_Reread(agent, currentPrompt) == currentPrompt

\* the prompt handed to executor.executeTestCase (line 149): the currentPrompt
\* of `agent`, the row read once at line 138
ExecutorPrompt(agent, currentPrompt) == agent.currentPrompt

\* the head of the for loop, had it polled the flag before every test case
RunCases_Preempt(s) ==
    IF s.stateFlag = "cancelled" THEN Finish(s, "cancelled", NoRate)
    ELSE IF s.loop.run.caseIdx <= Len(TestCases)
         THEN [s EXCEPT !.loop.pc = "execCase",
                        !.loop.run.sent = ExecutorPrompt([currentPrompt |-> s.loop.run.prompt],
                                                         s.agentPrompt)]
         ELSE executeTestRunEnd(s)

\* the head of `for (const tc of testCases)` (line 148)
RunCases(s) ==
    IF s.loop.run.caseIdx <= Len(TestCases)
    THEN \* line 149: await executor.executeTestCase(tc, agent.currentPrompt)
         [s EXCEPT !.loop.pc = "execCase",
                   !.loop.run.sent = ExecutorPrompt([currentPrompt |-> s.loop.run.prompt],
                                                    s.agentPrompt)]
    ELSE executeTestRunEnd(s)

\* the for loop, had it run the same test case again instead of the next one
StoreResult_NoAdvance(s, result) ==
    Then([s EXCEPT !.loop.run.result = <<>>], RunCases)

\* lines 155-170: the result and its criterion results are stored
StoreResult(s, result) ==
    LET r == s.loop.run IN
    Then([s EXCEPT !.testRuns[r.testRunId].results = Append(@, result),
                   !.loop.run.allResults = Append(@, result),
                   !.loop.run.result = <<>>,
                   !.loop.run.caseIdx = @ + 1],
         RunCases)

\* lines 136-146: executeTestRun up to its first await
executeTestRunBegin(s) ==
    LET testRunId == Len(s.testRuns) + 1
        row == [status |-> "running", overallPassRate |-> NoRate,
                promptSnapshot |-> s.agentPrompt, results |-> <<>>]
    IN  Then([s EXCEPT !.testRuns = Append(@, row),
                       !.loop.run = [NoRun EXCEPT !.testRunId = testRunId,
                                                  !.prompt = s.agentPrompt,
                                                  !.caseIdx = 1]],
             RunCases)

\* the head of the while loop, had cycleCount been incremented before the flags
\* are looked at
LoopWhile_CountFirst(s) ==
    LET l == s.loop
        t == [s EXCEPT !.loop.cycleCount = @ + 1]
    IN  IF LoopGuard(l.cycleCount, l.config.maxCycles)
        THEN IF s.stateFlag = "cancelled" THEN Finish(t, "cancelled", NoRate)
             ELSE IF s.stateFlag = "paused" THEN Finish(t, "paused", NoRate)
             ELSE Then(emit(t, Event("cycle_start", l.cycleCount + 1, NoRate, "")),
                       executeTestRunBegin)
        ELSE Finish(s, "completed", l.currentPassRate)

\* lines 72-90 and 126-128: one pass through the head of the while loop
LoopWhile(s) ==
    LET l == s.loop IN
    IF LoopGuard(l.cycleCount, l.config.maxCycles)
    THEN IF s.stateFlag = "cancelled" THEN Finish(s, "cancelled", NoRate)
         ELSE IF s.stateFlag = "paused" THEN Finish(s, "paused", NoRate)
         ELSE Then(emit([s EXCEPT !.loop.cycleCount = @ + 1],
                        Event("cycle_start", l.cycleCount + 1, NoRate, "")),
                   executeTestRunBegin)
    ELSE Finish(s, "completed", l.currentPassRate)

----------------------------------------------------------------------------
(* ResultEvaluatorService (result-evaluator.ts).  An explanation is the    *)
(* sequence of its characters, or Undefined when the reply has none.       *)

MaxExplanationLen == 2

Undefined == <<"undefined">>
Whitespace == {" "}
ExplanationChars == {" ", "x"}

\* result.explanation as the Client may return it
Explanations ==
    {Undefined} \cup UNION {[1..k -> ExplanationChars] : k \in 0..MaxExplanationLen}

Descriptions == {<<>>, <<"d">>}

\* String.prototype.trim
RECURSIVE TrimStart(_)
TrimStart(str) ==
    IF str # <<>> /\ Head(str) \in Whitespace THEN TrimStart(Tail(str)) ELSE str

RECURSIVE TrimEnd(_)
TrimEnd(str) ==
    IF str # <<>> /\ str[Len(str)] \in Whitespace
    THEN TrimEnd(SubSeq(str, 1, Len(str) - 1)) ELSE str

Trim(str) == TrimEnd(TrimStart(str))

\* !value for an optional string: undefined and '' are falsy
Falsy(value) == value = Undefined \/ value = <<>>

\* line 21: `Criterion "${criterion.description}" was not met by the agent response.`
NotMetExplanation(description) == <<"x">> \o description \o <<"x">>

\* lines 20-24, had only a missing or empty explanation been replaced
evaluateCriterionEnd_NoTrim(result, criterion) ==
    IF ~result.passed /\ Falsy(result.explanation)
    THEN [result EXCEPT !.explanation = NotMetExplanation(criterion.description)]
    ELSE result

\* lines 20-24 of evaluateCriterion: what it returns for the Client's result
evaluateCriterionEnd(result, criterion) ==
    IF ~result.passed /\ (Falsy(result.explanation) \/ Trim(result.explanation) = <<>>)
    THEN [result EXCEPT !.explanation = NotMetExplanation(criterion.description)]
    ELSE result

----------------------------------------------------------------------------
(* Operations of CycleOrchestratorService                                  *)

LoopActive(pc) == pc \in {"execCase", "evalCase", "optimize"}

\* startCycle (lines 40-57); runCycleLoop runs synchronously up to its first await
StartCycle(maxCycles, targetThreshold) ==
    /\ ~cycle.exists
    /\ LET s1 == [Cur EXCEPT
                    !.cycle = [NoCycle EXCEPT !.exists = TRUE,
                                              !.targetThreshold = targetThreshold,
                                              !.maxCycles = maxCycles,
                                              !.status = "running"],
                    !.stateFlag = "running",
                    !.loop = [NoLoop EXCEPT !.config = [targetThreshold |-> targetThreshold,
                                                        maxCycles |-> maxCycles]],
                    !.hist.lastCall = "startCycle"]
       IN  Commit(Then(s1, LoopWhile))
    /\ UNCHANGED pureVars

\* executeTestRun, had a failed execution rejected instead of being stored
ExecutorReturns_ErrorAborts(status) ==
    /\ loop.pc = "execCase"
    /\ LET tc == TestCases[loop.run.caseIdx]
           result == [testCaseId |-> tc.id, status |-> status, criterionResults |-> <<>>]
       IN  IF status = "completed"
           THEN Commit([Cur EXCEPT !.loop.pc = "evalCase", !.loop.run.result = result])
           ELSE Commit(LoopThrows(Cur))
    /\ UNCHANGED pureVars

\* executor.executeTestCase resolves (line 149); it never rejects (index.ts 53-77)
ExecutorReturns(status) ==
    /\ loop.pc = "execCase"
    /\ LET tc == TestCases[loop.run.caseIdx]
           result == [testCaseId |-> tc.id, status |-> status, criterionResults |-> <<>>]
       IN  IF status = "completed"
           THEN \* line 152: await evaluator.evaluateAllCriteria
                Commit([Cur EXCEPT !.loop.pc = "evalCase", !.loop.run.result = result])
           ELSE Commit(Then(Cur, LAMBDA t : StoreResult(t, result)))
    /\ UNCHANGED pureVars

\* what evaluateAllCriteria resolves with for a test case (result-evaluator.ts
\* 30-40), the Client having answered replies[i] for the i-th criterion
evaluateAllCriteria(tc, replies) ==
    [i \in 1..Len(tc.successCriteria) |->
        evaluateCriterionEnd(
            [criterionId |-> tc.successCriteria[i],
             passed |-> replies[i].passed,
             explanation |-> replies[i].explanation],
            [id |-> tc.successCriteria[i], description |-> <<"d">>])]

\* evaluator.evaluateAllCriteria resolves with one result per criterion
EvaluatorReturns(replies) ==
    /\ loop.pc = "evalCase"
    /\ LET tc == TestCases[loop.run.caseIdx]
           crs == evaluateAllCriteria(tc, replies)
       IN  Commit(Then(Cur, LAMBDA t : StoreResult(
                                  t, [loop.run.result EXCEPT !.criterionResults = crs])))
    /\ UNCHANGED pureVars

\* evaluator.evaluateAllCriteria rejects: executeTestRun and the loop reject
EvaluatorThrows ==
    /\ loop.pc = "evalCase"
    /\ Commit(LoopThrows(Cur))
    /\ UNCHANGED pureVars

\* lines 113-123, had the record been accepted without the agent's prompt
\* being updated
OptimizerReturns_NoApply(revisedPrompt) ==
    /\ loop.pc = "optimize"
    /\ LET id == Len(optRecords) + 1
           optRecord == [testRunId |-> loop.run.testRunId,
                         originalPrompt |-> loop.run.prompt,
                         revisedPrompt |-> revisedPrompt,
                         status |-> "generated"]
           s1 == [Cur EXCEPT !.optRecords = Append(@, optRecord),
                             !.loop.optimizationIds = Append(@, id),
                             !.loop.run = NoRun]
           s2 == [s1 EXCEPT !.optRecords[id].status = "accepted"]
           s3 == emit(s2, Event("optimization_complete", loop.cycleCount, NoRate, ""))
       IN  Commit(Then(s3, LoopWhile))
    /\ UNCHANGED pureVars

\* optimizer.optimizePrompt resolves (part_004 35-55), then lines 113-123
OptimizerReturns(revisedPrompt) ==
    /\ loop.pc = "optimize"
    /\ LET id == Len(optRecords) + 1
           optRecord == [testRunId |-> loop.run.testRunId,
                         originalPrompt |-> loop.run.prompt,
                         revisedPrompt |-> revisedPrompt,
                         status |-> "generated"]
           s1 == [Cur EXCEPT !.optRecords = Append(@, optRecord),
                             !.loop.optimizationIds = Append(@, id),
                             !.loop.run = NoRun]
           s2 == [s1 EXCEPT !.agentPrompt = optRecord.revisedPrompt,
                            !.optRecords[id].status = "accepted"]
           s3 == emit(s2, Event("optimization_complete", loop.cycleCount, NoRate, ""))
       IN  Commit(Then(s3, LoopWhile))
    /\ UNCHANGED pureVars

\* optimizer.optimizePrompt rejects: the loop rejects
OptimizerThrows ==
    /\ loop.pc = "optimize"
    /\ Commit(LoopThrows(Cur))
    /\ UNCHANGED pureVars

\* cancelCycle, had it also written the status into the CycleRecord row
cancelCycle_Persist ==
    /\ cycle.exists
    /\ IF transitionCycleStatus(cycle.status, "cancelled").threw
       THEN Commit([Cur EXCEPT !.hist.lastCall = "cancelCycle threw"])
       ELSE Commit([Cur EXCEPT !.stateFlag = "cancelled",
                               !.cycle.status = "cancelled",
                               !.hist.lastCall = "cancelCycle",
                               !.hist.requested = TRUE,
                               !.hist.cancelIter =
                                   IF LoopActive(loop.pc) /\ @ = 0
                                   THEN loop.cycleCount ELSE @])
    /\ UNCHANGED pureVars

\* cancelCycle (lines 230-236)
cancelCycle ==
    /\ cycle.exists
    /\ IF transitionCycleStatus(cycle.status, "cancelled").threw
       THEN Commit([Cur EXCEPT !.hist.lastCall = "cancelCycle threw"])
       ELSE Commit([Cur EXCEPT !.stateFlag = "cancelled",
                               !.hist.lastCall = "cancelCycle",
                               !.hist.requested = TRUE,
                               !.hist.cancelIter =
                                   IF LoopActive(loop.pc) /\ @ = 0
                                   THEN loop.cycleCount ELSE @])
    /\ UNCHANGED pureVars

\* pauseCycle, had it set the flag before validating the transition
pauseCycle_FlagFirst ==
    /\ cycle.exists
    /\ IF transitionCycleStatus(cycle.status, "paused").threw
       THEN Commit([Cur EXCEPT !.stateFlag = "paused",
                               !.hist.lastCall = "pauseCycle threw"])
       ELSE Commit([Cur EXCEPT !.stateFlag = "paused",
                               !.hist.lastCall = "pauseCycle",
                               !.hist.requested = TRUE])
    /\ UNCHANGED pureVars

\* pauseCycle (lines 238-244)
pauseCycle ==
    /\ cycle.exists
    /\ IF transitionCycleStatus(cycle.status, "paused").threw
       THEN Commit([Cur EXCEPT !.hist.lastCall = "pauseCycle threw"])
       ELSE Commit([Cur EXCEPT !.stateFlag = "paused",
                               !.hist.lastCall = "pauseCycle",
                               !.hist.requested = TRUE])
    /\ UNCHANGED pureVars

\* resumeCycle, had it set the flag without validating the transition
resumeCycle_NoValidate ==
    /\ cycle.exists
    /\ Commit([Cur EXCEPT !.stateFlag = "running",
                          !.hist.lastCall = "resumeCycle",
                          !.hist.resumed = TRUE])
    /\ UNCHANGED pureVars

\* resumeCycle (lines 246-252): the flag is set; no loop is started
resumeCycle ==
    /\ cycle.exists
    /\ IF transitionCycleStatus(cycle.status, "running").threw
       THEN Commit([Cur EXCEPT !.hist.lastCall = "resumeCycle threw"])
       ELSE Commit([Cur EXCEPT !.stateFlag = "running",
                               !.hist.lastCall = "resumeCycle",
                               !.hist.resumed = TRUE])
    /\ UNCHANGED pureVars

----------------------------------------------------------------------------
(* The cycle: one CycleOrchestratorService, one cycle id                   *)

\* before startCycle: no row, no flag, no loop
CycleIdle ==
    /\ cycle = NoCycle
    /\ stateFlag = "none"
    /\ loop = NoLoop
    /\ testRuns = <<>>
    /\ optRecords = <<>>
    /\ agentPrompt = 0
    /\ events = <<>>
    /\ hist = NoHist

Init ==
    /\ CycleIdle
    /\ sm = SMIdle
    /\ rb = RetryIdle
    /\ pr = RateIdle
    /\ df = DiffIdle
    /\ ev = EvalIdle
    /\ rq = RoutesIdle
    /\ ex = ExecIdle
    /\ su = SuiteIdle
    /\ cb = CmpIdle
    /\ mc = TwoIdle

LoopStep ==
    \/ \E status \in {"completed", "error"} : ExecutorReturns(status)
    \/ \E replies \in [1..1 -> LoopReplies] : EvaluatorReturns(replies)
    \/ EvaluatorThrows
    \/ \E revisedPrompt \in RevisedPrompts(loop.run.prompt) : OptimizerReturns(revisedPrompt)
    \/ OptimizerThrows

Next ==
    \/ \E maxCycles \in 0..MaxCyclesBound, targetThreshold \in Thresholds :
          StartCycle(maxCycles, targetThreshold)
    \/ LoopStep
    \/ cancelCycle
    \/ pauseCycle
    \/ resumeCycle

Spec == Init /\ [][Next]_vars

\* every call the loop awaits eventually resolves or rejects
FairSpec == Spec /\ WF_vars(LoopStep)

----------------------------------------------------------------------------
(* The status state machine functions applied to every pair of statuses    *)

InitSM ==
    /\ CycleIdle
    /\ sm \in [cyc : {SMCall(c, n) : c \in CycleStatus, n \in CycleStatus},
               opt : {SMCall(c, n) : c \in OptimizationStatus, n \in OptimizationStatus}]
    /\ rb = RetryIdle
    /\ pr = RateIdle
    /\ df = DiffIdle
    /\ ev = EvalIdle
    /\ rq = RoutesIdle
    /\ ex = ExecIdle
    /\ su = SuiteIdle
    /\ cb = CmpIdle
    /\ mc = TwoIdle

CallTransitionCycleStatus ==
    /\ sm.cyc.result = Pending
    /\ sm' = [sm EXCEPT !.cyc.result = transitionCycleStatus(sm.cyc.current, sm.cyc.next)]
    /\ UNCHANGED notSM

CallTransitionOptimizationStatus ==
    /\ sm.opt.result = Pending
    /\ sm' = [sm EXCEPT !.opt.result =
                  transitionOptimizationStatus(sm.opt.current, sm.opt.next)]
    /\ UNCHANGED notSM

NextSM == CallTransitionCycleStatus \/ CallTransitionOptimizationStatus

SpecSM == InitSM /\ [][NextSM]_vars

----------------------------------------------------------------------------
(* The LLM client (llm-service): retryWithBackoff around callLLM, and the  *)
(* parse of the reply that every operation does after callWithRetry        *)

MaxRetriesBound == 3

\* this.initialRetryDelayMs: the default and a small value
InitialDelays == {1, 1000}

\* what callLLM rejects with: the aborted request, the empty reply
CallErrors == {"aborted", "empty response"}

\* what callLLM resolves with: a JSON text, a fenced block holding a JSON
\* text, a fenced block holding something else, free text
RawReplies == {"json", "fenced json", "fenced text", "text"}

RECURSIVE Pow2(_)
Pow2(n) == IF n = 0 THEN 1 ELSE 2 * Pow2(n - 1)

\* line 238, had the delay been the same after every attempt
BackoffDelay_Constant(initialDelayMs, attempt) == initialDelayMs

\* line 238: initialDelayMs * Math.pow(2, attempt)
BackoffDelay(initialDelayMs, attempt) == initialDelayMs * Pow2(attempt)

\* parseJsonResponse (lines 211-223): the value decoded, or the fact that it threw
parseJsonResponse(raw) ==
    CASE raw = "json"        -> [threw |-> FALSE, value |-> "parsed"]
      [] raw = "fenced json" -> [threw |-> FALSE, value |-> "parsed"]
      [] raw = "fenced text" -> [threw |-> TRUE, value |-> "SyntaxError"]
      [] raw = "text"        -> [threw |-> TRUE, value |-> "Failed to parse LLM response as JSON"]

\* the head of the for loop (line 232) with `attempt` already set
RetryLoop(r) ==
    IF r.attempt <= r.maxRetries
    THEN \* line 234: await fn()
         [r EXCEPT !.pc = "call", !.calls = @ + 1]
    ELSE \* line 243: throw lastError
         [r EXCEPT !.pc = "thrown", !.result = r.lastError]

\* an operation (lines 307-391) calls callWithRetry (299-305): up to the first await
StartOperation(maxRetries, initialDelayMs) ==
    /\ rb.pc = "idle"
    /\ rb' = RetryLoop([RetryIdle EXCEPT !.maxRetries = maxRetries,
                                         !.initialDelayMs = initialDelayMs,
                                         !.op = "pending"])
    /\ UNCHANGED notRetry

\* fn() resolves: line 234 returns its value
CallLLMResolves(raw) ==
    /\ rb.pc = "call"
    /\ rb' = [rb EXCEPT !.pc = "returned", !.result = raw, !.replies = Append(@, raw)]
    /\ UNCHANGED notRetry

\* fn() rejects: lines 235-241, then attempt++ and the loop head
CallLLMRejects(error) ==
    /\ rb.pc = "call"
    /\ LET r == [rb EXCEPT !.lastError = error, !.errors = Append(@, error)]
       IN  IF r.attempt < r.maxRetries
           THEN \* line 239: await sleepFn(delay)
                rb' = [r EXCEPT !.pc = "sleep",
                                !.delays = Append(@, BackoffDelay(r.initialDelayMs, r.attempt))]
           ELSE rb' = RetryLoop([r EXCEPT !.attempt = @ + 1])
    /\ UNCHANGED notRetry

\* sleepFn resolves: attempt++ and the loop head
SleepResolves ==
    /\ rb.pc = "sleep"
    /\ rb' = RetryLoop([rb EXCEPT !.attempt = @ + 1])
    /\ UNCHANGED notRetry

\* `const raw = await this.callWithRetry(...)` resumes: the reply is parsed
\* (e.g. lines 378-379), or the rejection propagates to the caller
OperationResumes ==
    /\ rb.op = "pending"
    /\ rb.pc \in {"returned", "thrown"}
    /\ IF rb.pc = "thrown"
       THEN rb' = [rb EXCEPT !.op = "rejected", !.opResult = rb.result]
       ELSE LET parsed == parseJsonResponse(rb.result)
            IN  rb' = [rb EXCEPT !.op = IF parsed.threw THEN "rejected" ELSE "resolved",
                                 !.opResult = parsed.value]
    /\ UNCHANGED notRetry

InitRetry ==
    /\ CycleIdle
    /\ sm = SMIdle
    /\ rb = RetryIdle
    /\ pr = RateIdle
    /\ df = DiffIdle
    /\ ev = EvalIdle
    /\ rq = RoutesIdle
    /\ ex = ExecIdle
    /\ su = SuiteIdle
    /\ cb = CmpIdle
    /\ mc = TwoIdle

NextRetry ==
    \/ \E maxRetries \in 0..MaxRetriesBound, initialDelayMs \in InitialDelays :
          StartOperation(maxRetries, initialDelayMs)
    \/ \E raw \in RawReplies : CallLLMResolves(raw)
    \/ \E error \in CallErrors : CallLLMRejects(error)
    \/ SleepResolves
    \/ OperationResumes

SpecRetry == InitRetry /\ [][NextRetry]_vars

----------------------------------------------------------------------------
(* calculatePassRate applied to every list of test case results            *)

MaxResults == 2
MaxCriteria == 2

SeqsUpTo(S, n) == UNION {[1..k -> S] : k \in 0..n}

\* TestCaseResult values: either status, any criterion results attached
TestCaseResultValues ==
    [testCaseId : {"tc"}, status : {"completed", "error"},
     criterionResults : SeqsUpTo([criterionId : {"c"}, passed : BOOLEAN], MaxCriteria)]

InitRate ==
    /\ CycleIdle
    /\ sm = SMIdle
    /\ rb = RetryIdle
    /\ pr \in [pc : {"idle"}, testCaseResults : SeqsUpTo(TestCaseResultValues, MaxResults),
               result : {NoRate}]
    /\ df = DiffIdle
    /\ ev = EvalIdle
    /\ rq = RoutesIdle
    /\ ex = ExecIdle
    /\ su = SuiteIdle
    /\ cb = CmpIdle
    /\ mc = TwoIdle

CallCalculatePassRate ==
    /\ pr.pc = "idle"
    /\ pr' = [pr EXCEPT !.pc = "done", !.result = calculatePassRate(pr.testCaseResults)]
    /\ UNCHANGED notRate

NextRate == CallCalculatePassRate

SpecRate == InitRate /\ [][NextRate]_vars

----------------------------------------------------------------------------
(* computeDiff and buildLCS (database.ts 221-279).  A string is the        *)
(* sequence of its characters; indices are 1-based here, 0-based there.    *)

MaxPromptLen == 3

NL == "\n"
Chars == {"a", NL}

Strings == UNION {[1..k -> Chars] : k \in 0..MaxPromptLen}

\* str.split('\n'): the pieces between the separators, at least one
RECURSIVE Split(_)
Split(str) ==
    IF str = <<>> THEN << <<>> >>
    ELSE LET rest == Split(Tail(str))
         IN  IF Head(str) = NL
             THEN << <<>> >> \o rest
             ELSE << <<Head(str)>> \o Head(rest) >> \o Tail(rest)

MaxOf(x, y) == IF x > y THEN x ELSE y

\* line 260 for row i: dp[i][1..j], given prev = dp[i-1][1..n]; dp[.][0] = 0
RECURSIVE DpRow(_, _, _, _)
DpRow(x, b, prev, j) ==
    IF j = 0 THEN <<>>
    ELSE LET left == DpRow(x, b, prev, j - 1)
             diag == IF j = 1 THEN 0 ELSE prev[j - 1]
             west == IF j = 1 THEN 0 ELSE left[j - 1]
         IN  Append(left, IF x = b[j] THEN diag + 1 ELSE MaxOf(prev[j], west))

\* lines 256-262: rows 1..i of dp; row 0 is all 0
RECURSIVE DpTable(_, _, _)
DpTable(a, b, i) ==
    IF i = 0 THEN <<>>
    ELSE LET t == DpTable(a, b, i - 1)
             prev == IF i = 1 THEN [j \in 1..Len(b) |-> 0] ELSE t[i - 1]
         IN  Append(t, DpRow(a[i], b, prev, Len(b)))

Dp(t, i, j) == IF i = 0 \/ j = 0 THEN 0 ELSE t[i][j]

\* lines 264-276: the backtrack; unshift builds the result back to front
RECURSIVE Backtrack(_, _, _, _, _)
Backtrack(a, b, t, i, j) ==
    IF ~(i > 0 /\ j > 0) THEN <<>>
    ELSE IF a[i] = b[j] THEN Append(Backtrack(a, b, t, i - 1, j - 1), a[i])
    ELSE IF Dp(t, i - 1, j) > Dp(t, i, j - 1) THEN Backtrack(a, b, t, i - 1, j)
    ELSE Backtrack(a, b, t, i, j - 1)

\* lines 253-279 with push for unshift in the backtrack: the result reversed
buildLCS_Push(a, b) ==
    LET lcs == Backtrack(a, b, DpTable(a, b, Len(a)), Len(a), Len(b))
    IN  [k \in 1..Len(lcs) |-> lcs[Len(lcs) + 1 - k]]

buildLCS(a, b) == Backtrack(a, b, DpTable(a, b, Len(a)), Len(a), Len(b))

DiffChange(type, lineNumber, content) ==
    [type |-> type, lineNumber |-> lineNumber, content |-> content]

\* the while condition of line 235
DiffLoop(d) ==
    IF d.oi < Len(d.originalLines) \/ d.ri < Len(d.revisedLines)
    THEN [d EXCEPT !.pc = "walk"]
    ELSE [d EXCEPT !.pc = "returned"]

\* lines 222-235, had the two strings not been compared first
computeDiffBegin_NoEqualCheck(original, revised) ==
    LET originalLines == Split(original)
        revisedLines == Split(revised)
    IN  DiffLoop([DiffIdle EXCEPT !.original = original, !.revised = revised,
                                  !.originalLines = originalLines,
                                  !.revisedLines = revisedLines,
                                  !.lcs = buildLCS(originalLines, revisedLines)])

\* lines 222-235: up to the first test of the while condition
computeDiffBegin(original, revised) ==
    IF original = revised
    THEN [DiffIdle EXCEPT !.pc = "returned", !.original = original, !.revised = revised]
    ELSE LET originalLines == Split(original)
             revisedLines == Split(revised)
         IN  DiffLoop([DiffIdle EXCEPT !.original = original, !.revised = revised,
                                       !.originalLines = originalLines,
                                       !.revisedLines = revisedLines,
                                       !.lcs = buildLCS(originalLines, revisedLines)])

\* lines 236-247 with a context line numbered by its position in the original
computeDiffBody_OriginalNumbering(d) ==
    LET o == d.originalLines
        r == d.revisedLines
        l == d.lcs
    IN  IF /\ d.li < Len(l) /\ d.oi < Len(o) /\ d.ri < Len(r)
           /\ o[d.oi + 1] = l[d.li + 1] /\ r[d.ri + 1] = l[d.li + 1]
        THEN [d EXCEPT !.changes = Append(@, DiffChange("context", d.oi + 1, l[d.li + 1])),
                       !.oi = @ + 1, !.ri = @ + 1, !.li = @ + 1]
        ELSE IF d.oi < Len(o) /\ (d.li >= Len(l) \/ o[d.oi + 1] # l[d.li + 1])
        THEN [d EXCEPT !.changes = Append(@, DiffChange("removed", d.oi + 1, o[d.oi + 1])),
                       !.oi = @ + 1]
        ELSE IF d.ri < Len(r) /\ (d.li >= Len(l) \/ r[d.ri + 1] # l[d.li + 1])
        THEN [d EXCEPT !.changes = Append(@, DiffChange("added", d.ri + 1, r[d.ri + 1])),
                       !.ri = @ + 1]
        ELSE d

\* lines 236-247: one pass through the body of the while loop (0-based oi, ri, li)
computeDiffBody(d) ==
    LET o == d.originalLines
        r == d.revisedLines
        l == d.lcs
    IN  IF /\ d.li < Len(l) /\ d.oi < Len(o) /\ d.ri < Len(r)
           /\ o[d.oi + 1] = l[d.li + 1] /\ r[d.ri + 1] = l[d.li + 1]
        THEN [d EXCEPT !.changes = Append(@, DiffChange("context", d.ri + 1, l[d.li + 1])),
                       !.oi = @ + 1, !.ri = @ + 1, !.li = @ + 1]
        ELSE IF d.oi < Len(o) /\ (d.li >= Len(l) \/ o[d.oi + 1] # l[d.li + 1])
        THEN [d EXCEPT !.changes = Append(@, DiffChange("removed", d.oi + 1, o[d.oi + 1])),
                       !.oi = @ + 1]
        ELSE IF d.ri < Len(r) /\ (d.li >= Len(l) \/ r[d.ri + 1] # l[d.li + 1])
        THEN [d EXCEPT !.changes = Append(@, DiffChange("added", d.ri + 1, r[d.ri + 1])),
                       !.ri = @ + 1]
        ELSE d

\* computeDiff is called
ComputeDiffCall(original, revised) ==
    /\ df.pc = "idle"
    /\ df' = computeDiffBegin(original, revised)
    /\ UNCHANGED notDiff

\* one iteration of the while loop
ComputeDiffIteration ==
    /\ df.pc = "walk"
    /\ df' = DiffLoop(computeDiffBody(df))
    /\ UNCHANGED notDiff

InitDiff ==
    /\ CycleIdle
    /\ sm = SMIdle
    /\ rb = RetryIdle
    /\ pr = RateIdle
    /\ df = DiffIdle
    /\ ev = EvalIdle
    /\ rq = RoutesIdle
    /\ ex = ExecIdle
    /\ su = SuiteIdle
    /\ cb = CmpIdle
    /\ mc = TwoIdle

NextDiff ==
    \/ \E original \in Strings, revised \in Strings : ComputeDiffCall(original, revised)
    \/ ComputeDiffIteration

SpecDiff == InitDiff /\ [][NextDiff]_vars

----------------------------------------------------------------------------
(* ResultEvaluatorService.evaluateAllCriteria on every list of criteria    *)

\* the head of `for (const criterion of criteria)` (line 35)
EvalLoop(e) ==
    IF Len(e.results) < Len(e.criteria)
    THEN [e EXCEPT !.pc = "await"]     \* line 17: await llmService.evaluateCriterion
    ELSE [e EXCEPT !.pc = "returned"]

\* evaluateAllCriteria is called (lines 30-36)
EvaluateAllCriteriaCall(criteria) ==
    /\ ev.pc = "idle"
    /\ ev' = EvalLoop([EvalIdle EXCEPT !.criteria = criteria])
    /\ UNCHANGED notEval

\* llmService.evaluateCriterion resolves (lines 17-24, 37)
ClientResolves(passed, explanation) ==
    /\ ev.pc = "await"
    /\ LET criterion == ev.criteria[Len(ev.results) + 1]
           result == [criterionId |-> criterion.id, passed |-> passed,
                      explanation |-> explanation]
       IN  ev' = EvalLoop([ev EXCEPT !.replies = Append(@, result),
                                     !.results = Append(@, evaluateCriterionEnd(result, criterion))])
    /\ UNCHANGED notEval

\* llmService.evaluateCriterion rejects: evaluateAllCriteria rejects
ClientRejects ==
    /\ ev.pc = "await"
    /\ ev' = [ev EXCEPT !.pc = "thrown"]
    /\ UNCHANGED notEval

InitEval ==
    /\ CycleIdle
    /\ sm = SMIdle
    /\ rb = RetryIdle
    /\ pr = RateIdle
    /\ df = DiffIdle
    /\ ev = EvalIdle
    /\ rq = RoutesIdle
    /\ ex = ExecIdle
    /\ su = SuiteIdle
    /\ cb = CmpIdle
    /\ mc = TwoIdle

NextEval ==
    \/ \E n \in 0..MaxCriteria, d \in [1..MaxCriteria -> Descriptions] :
          EvaluateAllCriteriaCall([i \in 1..n |-> [id |-> i, description |-> d[i]]])
    \/ \E passed \in BOOLEAN, explanation \in Explanations :
          ClientResolves(passed, explanation)
    \/ ClientRejects

SpecEval == InitEval /\ [][NextEval]_vars

----------------------------------------------------------------------------
(* The manual workflow over HTTP: POST /api/test-runs, POST                *)
(* /api/test-runs/:id/retry/:caseId (routes/optimize.ts 254-422) and PUT   *)
(* /api/agents/:id/prompt.  Rows of TestCaseResult are kept in table order. *)

MaxRetryCalls == 2

\* the prompts a caller may PUT
Prompts == {0, 1}

\* rows without the first one of the given test case (lines 379-383)
RECURSIVE DeleteFirst(_, _)
DeleteFirst(rows, testCaseId) ==
    IF rows = <<>> THEN <<>>
    ELSE IF Head(rows).testCaseId = testCaseId THEN Tail(rows)
    ELSE <<Head(rows)>> \o DeleteFirst(Tail(rows), testCaseId)

\* lines 286 and 309-314: the next test case, or the run is completed
RouteRunCases(runs, r) ==
    IF r.caseIdx <= Len(TestCases)
    THEN [runs |-> runs,
          run |-> [r EXCEPT !.pc = "execCase",
                            !.sent = ExecutorPrompt([currentPrompt |-> r.prompt],
                                                    agentPrompt)]]
    ELSE [runs |-> [runs EXCEPT ![r.testRunId].overallPassRate =
                                    calculatePassRate(r.allResults),
                                ![r.testRunId].status = "completed"],
          run |-> RoutesIdle.run]

\* lines 293-306: the result is stored
RouteStoreResult(result) ==
    LET r == rq.run
        next == RouteRunCases([testRuns EXCEPT ![r.testRunId].results = Append(@, result)],
                              [r EXCEPT !.allResults = Append(@, result),
                                        !.result = <<>>,
                                        !.caseIdx = @ + 1])
    IN  /\ testRuns' = next.runs
        /\ rq' = [rq EXCEPT !.run = next.run]

\* POST /api/test-runs (lines 254-287), for the first run of the suite
PostTestRun ==
    /\ rq.run.pc = "idle"
    /\ testRuns = <<>>
    /\ LET testRunId == Len(testRuns) + 1
           row == [status |-> "running", overallPassRate |-> NoRate,
                   promptSnapshot |-> agentPrompt, results |-> <<>>]
           next == RouteRunCases(Append(testRuns, row),
                                 [RoutesIdle.run EXCEPT !.testRunId = testRunId,
                                                        !.prompt = agentPrompt,
                                                        !.caseIdx = 1])
       IN  /\ testRuns' = next.runs
           /\ rq' = [rq EXCEPT !.run = next.run]
    /\ UNCHANGED <<agentPrompt, notRoutes>>

\* line 287: executor.executeTestCase resolves
RouteExecutorReturns(status) ==
    /\ rq.run.pc = "execCase"
    /\ LET tc == TestCases[rq.run.caseIdx]
           result == [testCaseId |-> tc.id, status |-> status, criterionResults |-> <<>>]
       IN  IF status = "completed"
           THEN /\ rq' = [rq EXCEPT !.run.pc = "evalCase", !.run.result = result]
                /\ UNCHANGED testRuns
           ELSE RouteStoreResult(result)
    /\ UNCHANGED <<agentPrompt, notRoutes>>

\* line 290: evaluator.evaluateAllCriteria resolves
RouteEvaluatorReturns(replies) ==
    /\ rq.run.pc = "evalCase"
    /\ RouteStoreResult([rq.run.result EXCEPT !.criterionResults =
                            evaluateAllCriteria(TestCases[rq.run.caseIdx], replies)])
    /\ UNCHANGED <<agentPrompt, notRoutes>>

\* line 290 rejects: the catch of lines 315-317 answers 500
RouteEvaluatorThrows ==
    /\ rq.run.pc = "evalCase"
    /\ rq' = [rq EXCEPT !.run = RoutesIdle.run]
    /\ UNCHANGED <<testRuns, agentPrompt, notRoutes>>

\* lines 390-418: the new result is stored and the pass rate recalculated
RetryStoreResult(result) ==
    LET id == rq.retry.testRunId
        rows == Append(testRuns[id].results, result)
    IN  /\ testRuns' = [testRuns EXCEPT ![id].results = rows,
                                        ![id].overallPassRate = calculatePassRate(rows)]
        /\ rq' = [rq EXCEPT !.retry = [RoutesIdle.retry EXCEPT !.calls = rq.retry.calls]]

\* POST /api/test-runs/:id/retry/:caseId (lines 351-385)
PostRetry(testRunId, caseIdx) ==
    /\ rq.retry.pc = "idle"
    /\ rq.retry.calls < MaxRetryCalls
    /\ testRunId \in 1..Len(testRuns)
    /\ testRuns' = [testRuns EXCEPT ![testRunId].results =
                        DeleteFirst(@, TestCases[caseIdx].id)]
    /\ rq' = [rq EXCEPT !.retry = [pc |-> "execCase", testRunId |-> testRunId,
                                   caseIdx |-> caseIdx, result |-> <<>>,
                                   calls |-> rq.retry.calls + 1,
                                   sent |-> testRuns[testRunId].promptSnapshot]]
    /\ UNCHANGED <<agentPrompt, notRoutes>>

\* line 385: executor.executeTestCase resolves
RetryExecutorReturns(status) ==
    /\ rq.retry.pc = "execCase"
    /\ LET tc == TestCases[rq.retry.caseIdx]
           result == [testCaseId |-> tc.id, status |-> status, criterionResults |-> <<>>]
       IN  IF status = "completed"
           THEN /\ rq' = [rq EXCEPT !.retry.pc = "evalCase", !.retry.result = result]
                /\ UNCHANGED testRuns
           ELSE RetryStoreResult(result)
    /\ UNCHANGED <<agentPrompt, notRoutes>>

\* line 387: evaluator.evaluateAllCriteria resolves
RetryEvaluatorReturns(replies) ==
    /\ rq.retry.pc = "evalCase"
    /\ RetryStoreResult([rq.retry.result EXCEPT !.criterionResults =
                            evaluateAllCriteria(TestCases[rq.retry.caseIdx], replies)])
    /\ UNCHANGED <<agentPrompt, notRoutes>>

\* line 387 rejects: the catch of lines 419-421 answers 500
RetryEvaluatorThrows ==
    /\ rq.retry.pc = "evalCase"
    /\ rq' = [rq EXCEPT !.retry = [RoutesIdle.retry EXCEPT !.calls = rq.retry.calls]]
    /\ UNCHANGED <<testRuns, agentPrompt, notRoutes>>

\* PUT /api/agents/:id/prompt
PutAgentPrompt(prompt) ==
    /\ agentPrompt' = prompt
    /\ UNCHANGED <<testRuns, rq, notRoutes>>

InitRoutes ==
    /\ CycleIdle
    /\ sm = SMIdle
    /\ rb = RetryIdle
    /\ pr = RateIdle
    /\ df = DiffIdle
    /\ ev = EvalIdle
    /\ rq = RoutesIdle
    /\ ex = ExecIdle
    /\ su = SuiteIdle
    /\ cb = CmpIdle
    /\ mc = TwoIdle

NextRoutes ==
    \/ PostTestRun
    \/ \E status \in {"completed", "error"} : RouteExecutorReturns(status)
    \/ \E replies \in [1..1 -> LoopReplies] : RouteEvaluatorReturns(replies)
    \/ RouteEvaluatorThrows
    \/ \E testRunId \in 1..Len(testRuns), caseIdx \in 1..Len(TestCases) :
          PostRetry(testRunId, caseIdx)
    \/ \E status \in {"completed", "error"} : RetryExecutorReturns(status)
    \/ \E replies \in [1..1 -> LoopReplies] : RetryEvaluatorReturns(replies)
    \/ RetryEvaluatorThrows
    \/ \E prompt \in Prompts : PutAgentPrompt(prompt)

SpecRoutes == InitRoutes /\ [][NextRoutes]_vars

\* the cycle loop, while the agent's prompt is edited over HTTP
NextPrompt ==
    \/ Next
    \/ \E prompt \in Prompts : PutAgentPrompt(prompt)

SpecPrompt == Init /\ [][NextPrompt]_vars

----------------------------------------------------------------------------
(* The optimization routes: POST /api/optimize and POST                    *)
(* /api/optimize/:id/apply (routes/optimize.ts 9-104), called while the    *)
(* cycle loop produces test runs and optimization records of its own.      *)

MaxOptimizeCalls == 1

\* the cycle running beside the routes has one optimization step of its own
OptimizeCycles == {2}

\* POST /api/optimize (lines 18-61), up to `await optimizer.optimizePrompt`
PostOptimize(testRunId) ==
    /\ rq.optimize.pc = "idle"
    /\ rq.optimize.calls < MaxOptimizeCalls
    /\ testRunId \in 1..Len(testRuns)
    /\ IF HasFailures(getResultsForRun(Cur, testRunId).failures)
       THEN rq' = [rq EXCEPT !.optimize = [pc |-> "optimize", testRunId |-> testRunId,
                                           prompt |-> agentPrompt,
                                           calls |-> rq.optimize.calls + 1,
                                           response |-> "none"]]
       ELSE rq' = [rq EXCEPT !.optimize.calls = @ + 1,
                             !.optimize.response = "400 NO_FAILURES"]
    /\ UNCHANGED <<optRecords, agentPrompt, notOptimize>>

\* optimizer.optimizePrompt resolves (part_004 35-55): the record is stored as
\* generated and answered with its diff (lines 61-64)
OptimizeResolves(revisedPrompt) ==
    /\ rq.optimize.pc = "optimize"
    /\ optRecords' = Append(optRecords, [testRunId |-> rq.optimize.testRunId,
                                         originalPrompt |-> rq.optimize.prompt,
                                         revisedPrompt |-> revisedPrompt,
                                         status |-> "generated"])
    /\ rq' = [rq EXCEPT !.optimize = [RoutesIdle.optimize EXCEPT
                                          !.calls = rq.optimize.calls,
                                          !.response = "201"]]
    /\ UNCHANGED <<agentPrompt, notOptimize>>

\* optimizer.optimizePrompt rejects: the catch of lines 65-67 answers 500
OptimizeRejects ==
    /\ rq.optimize.pc = "optimize"
    /\ rq' = [rq EXCEPT !.optimize = [RoutesIdle.optimize EXCEPT
                                          !.calls = rq.optimize.calls,
                                          !.response = "500 OPTIMIZATION_FAILED"]]
    /\ UNCHANGED <<optRecords, agentPrompt, notOptimize>>

\* the apply route, had it written the agent's prompt before validating
PostApply_WriteFirst(id) ==
    /\ IF id \notin 1..Len(optRecords)
       THEN /\ rq' = [rq EXCEPT !.apply = [id |-> id, response |-> "404"]]
            /\ UNCHANGED <<optRecords, agentPrompt>>
       ELSE IF transitionOptimizationStatus(optRecords[id].status, "accepted").threw
       THEN /\ rq' = [rq EXCEPT !.apply = [id |-> id,
                                           response |-> "400 INVALID_TRANSITION"]]
            /\ agentPrompt' = optRecords[id].revisedPrompt
            /\ UNCHANGED optRecords
       ELSE /\ agentPrompt' = optRecords[id].revisedPrompt
            /\ optRecords' = [optRecords EXCEPT ![id].status = "accepted"]
            /\ rq' = [rq EXCEPT !.apply = [id |-> id, response |-> "200"]]
    /\ UNCHANGED notOptimize

\* POST /api/optimize/:id/apply (lines 71-101); the handler has no await
PostApply(id) ==
    /\ IF id \notin 1..Len(optRecords)
       THEN \* lines 76-79
            /\ rq' = [rq EXCEPT !.apply = [id |-> id, response |-> "404"]]
            /\ UNCHANGED <<optRecords, agentPrompt>>
       ELSE IF transitionOptimizationStatus(optRecords[id].status, "accepted").threw
       THEN \* lines 82-87
            /\ rq' = [rq EXCEPT !.apply = [id |-> id,
                                           response |-> "400 INVALID_TRANSITION"]]
            /\ UNCHANGED <<optRecords, agentPrompt>>
       ELSE \* lines 89-96
            /\ agentPrompt' = optRecords[id].revisedPrompt
            /\ optRecords' = [optRecords EXCEPT ![id].status = "accepted"]
            /\ rq' = [rq EXCEPT !.apply = [id |-> id, response |-> "200"]]
    /\ UNCHANGED notOptimize

NextOptimize ==
    \/ \E maxCycles \in OptimizeCycles, targetThreshold \in Thresholds :
          StartCycle(maxCycles, targetThreshold)
    \/ LoopStep
    \/ \E testRunId \in 1..Len(testRuns) : PostOptimize(testRunId)
    \/ \E revisedPrompt \in RevisedPrompts(rq.optimize.prompt) :
          OptimizeResolves(revisedPrompt)
    \/ OptimizeRejects
    \/ \E id \in 1..(Len(optRecords) + 1) : PostApply(id)

SpecOptimize == Init /\ [][NextOptimize]_vars

----------------------------------------------------------------------------
(* Two cycles of one CycleOrchestratorService, started for different       *)
(* agents.  The service's Maps are keyed by cycle id, the rows it writes   *)
(* are selected by cycle id, agent id or test run id.                      *)

\* the configurations the two cycles are started with
TwoCycles == {2}
TwoThresholds == {<<1, 1>>}

\* a write without its key: every row of the table, every entry of the Map
Put_AllKeys(table, id, value) == [k \in DOMAIN table |-> value]

\* `UPDATE ... WHERE id = ?` (cycle-orchestrator.ts 223-227, 116-119), an
\* INSERT of a row with that id, and `Map.set(cycleId, ...)` (48, 234, 242, 250)
Put(table, id, value) == [table EXCEPT ![id] = value]

\* what the code running for cycle c reads: the rows and entries of its ids
View(c) ==
    [cycle |-> mc.cycle[c], stateFlag |-> mc.stateFlag[c], loop |-> mc.loop[c],
     testRuns |-> mc.testRuns[c], optRecords |-> mc.optRecords[c],
     agentPrompt |-> mc.agentPrompt[c], events |-> mc.events[c], hist |-> NoHist]

\* the code running for cycle c leaves s
Store(c, s) ==
    \E t \in {s} :
        mc' = [cycle |-> Put(mc.cycle, c, t.cycle),
               stateFlag |-> Put(mc.stateFlag, c, t.stateFlag),
               loop |-> Put(mc.loop, c, t.loop),
               testRuns |-> Put(mc.testRuns, c, t.testRuns),
               optRecords |-> Put(mc.optRecords, c, t.optRecords),
               agentPrompt |-> Put(mc.agentPrompt, c, t.agentPrompt),
               events |-> Put(mc.events, c, t.events)]

notTwo == <<cycleVars, sm, rb, pr, df, ev, rq, cb, su, ex>>

\* startCycle (lines 40-57) for cycle c
TwoStartCycle(c, maxCycles, targetThreshold) ==
    /\ ~mc.cycle[c].exists
    /\ LET s1 == [View(c) EXCEPT
                    !.cycle = [NoCycle EXCEPT !.exists = TRUE,
                                              !.targetThreshold = targetThreshold,
                                              !.maxCycles = maxCycles,
                                              !.status = "running"],
                    !.stateFlag = "running",
                    !.loop = [NoLoop EXCEPT !.config = [targetThreshold |-> targetThreshold,
                                                        maxCycles |-> maxCycles]]]
       IN  Store(c, Then(s1, LoopWhile))
    /\ UNCHANGED notTwo

\* executor.executeTestCase resolves in the loop of cycle c (line 149)
TwoExecutorReturns(c, status) ==
    /\ mc.loop[c].pc = "execCase"
    /\ LET l == mc.loop[c]
           tc == TestCases[l.run.caseIdx]
           result == [testCaseId |-> tc.id, status |-> status, criterionResults |-> <<>>]
       IN  IF status = "completed"
           THEN Store(c, [View(c) EXCEPT !.loop.pc = "evalCase", !.loop.run.result = result])
           ELSE Store(c, Then(View(c), LAMBDA t : StoreResult(t, result)))
    /\ UNCHANGED notTwo

\* evaluator.evaluateAllCriteria resolves in the loop of cycle c (line 152)
TwoEvaluatorReturns(c, replies) ==
    /\ mc.loop[c].pc = "evalCase"
    /\ LET l == mc.loop[c]
           crs == evaluateAllCriteria(TestCases[l.run.caseIdx], replies)
       IN  Store(c, Then(View(c), LAMBDA t : StoreResult(
                                     t, [l.run.result EXCEPT !.criterionResults = crs])))
    /\ UNCHANGED notTwo

\* an awaited evaluator or optimizer call rejects in the loop of cycle c
TwoLoopThrows(c) ==
    /\ mc.loop[c].pc \in {"evalCase", "optimize"}
    /\ Store(c, LoopThrows(View(c)))
    /\ UNCHANGED notTwo

\* optimizer.optimizePrompt resolves in the loop of cycle c (lines 112-123)
TwoOptimizerReturns(c, revisedPrompt) ==
    /\ mc.loop[c].pc = "optimize"
    /\ LET l == mc.loop[c]
           id == Len(mc.optRecords[c]) + 1
           optRecord == [testRunId |-> l.run.testRunId,
                         originalPrompt |-> l.run.prompt,
                         revisedPrompt |-> revisedPrompt,
                         status |-> "generated"]
           s1 == [View(c) EXCEPT !.optRecords = Append(@, optRecord),
                                 !.loop.optimizationIds = Append(@, id),
                                 !.loop.run = NoRun]
           s2 == [s1 EXCEPT !.agentPrompt = optRecord.revisedPrompt,
                            !.optRecords[id].status = "accepted"]
           s3 == emit(s2, Event("optimization_complete", l.cycleCount, NoRate, ""))
       IN  Store(c, Then(s3, LoopWhile))
    /\ UNCHANGED notTwo

\* cancelCycle, pauseCycle or resumeCycle for cycle c (lines 230-252): next is
\* the status asked for, flag the value set when the transition is valid
TwoRequest(c, next, flag) ==
    /\ mc.cycle[c].exists
    /\ ~transitionCycleStatus(mc.cycle[c].status, next).threw
    /\ Store(c, [View(c) EXCEPT !.stateFlag = flag])
    /\ UNCHANGED notTwo

NextTwo ==
    \E c \in CycleIds :
        \/ \E maxCycles \in TwoCycles, targetThreshold \in TwoThresholds :
              TwoStartCycle(c, maxCycles, targetThreshold)
        \/ \E status \in {"completed", "error"} : TwoExecutorReturns(c, status)
        \/ \E replies \in [1..1 -> LoopReplies] : TwoEvaluatorReturns(c, replies)
        \/ TwoLoopThrows(c)
        \/ \E revisedPrompt \in RevisedPrompts(mc.loop[c].run.prompt) :
              TwoOptimizerReturns(c, revisedPrompt)
        \/ TwoRequest(c, "cancelled", "cancelled")
        \/ TwoRequest(c, "paused", "paused")
        \/ TwoRequest(c, "running", "running")

SpecTwo == Init /\ [][NextTwo]_vars

----------------------------------------------------------------------------
(* ComparisonBuilderService (comparison-builder.ts), called on the TestRun *)
(* rows of one agent, given in startedAt order; each row carries the       *)
(* criterion results of its completed test cases.                          *)

MaxComparedRuns == 3

notCmp == <<cycleVars, sm, rb, pr, df, ev, rq, mc, su, ex>>

\* the success criteria of the agent's suite
CmpCriteria == <<"c1", "c2">>

\* the criterion results a run may hold: per criterion none, passed or failed
RunResults ==
    {LET ks == SelectSeq([k \in 1..Len(CmpCriteria) |-> k], LAMBDA k : o[k] # "none")
     IN  [j \in 1..Len(ks) |->
             [criterionId |-> CmpCriteria[ks[j]], passed |-> o[ks[j]] = "passed"]] :
       o \in [1..Len(CmpCriteria) -> {"none", "passed", "failed"}]}

\* the TestRun rows of the agent
RunRows ==
    [status : {"running", "completed"}, overallPassRate : {NoRate}, results : RunResults]

\* lines 39-43: the agent's completed runs, oldest first
CompletedRuns(runs) == SelectSeq(runs, LAMBDA r : r.status = "completed")

\* getCriterionResultsForRun (lines 108-124)
getCriterionResultsForRun(run) == run.results

\* lines 80-83: firstMap.get(criterionId) after the loop of firstMap.set; a
\* later row of the same criterion overwrites an earlier one
FirstMapGet(firstResults, criterionId) ==
    LET at == {j \in 1..Len(firstResults) : firstResults[j].criterionId = criterionId}
    IN  IF at = {} THEN [defined |-> FALSE, passed |-> FALSE]
        ELSE [defined |-> TRUE,
              passed |-> firstResults[CHOOSE j \in at : \A i \in at : i <= j].passed]

CriterionChange(r, previousPassed) ==
    [criterionId |-> r.criterionId, previousPassed |-> previousPassed,
     currentPassed |-> r.passed]

RECURSIVE MapChanges(_, _)
MapChanges(rows, previousPassed) ==
    IF rows = <<>> THEN <<>>
    ELSE <<CriterionChange(Head(rows), previousPassed)>>
            \o MapChanges(Tail(rows), previousPassed)

\* lines 66-106, given the results of the two runs compared
CompareRuns(firstResults, lastResults) ==
    LET prev(r) == FirstMapGet(firstResults, r.criterionId)
    IN  [improvements |->
            MapChanges(SelectSeq(lastResults,
                                 LAMBDA r : prev(r).defined /\ ~prev(r).passed /\ r.passed),
                       FALSE),
         regressions |->
            MapChanges(SelectSeq(lastResults,
                                 LAMBDA r : prev(r).defined /\ prev(r).passed /\ ~r.passed),
                       TRUE)]

\* computeChanges, had it compared the last run with the run before it
computeChanges_Previous(runs) ==
    IF Len(runs) < 2 THEN [improvements |-> <<>>, regressions |-> <<>>]
    ELSE CompareRuns(getCriterionResultsForRun(runs[Len(runs) - 1]),
                     getCriterionResultsForRun(runs[Len(runs)]))

\* computeChanges (lines 66-106)
computeChanges(runs) ==
    IF Len(runs) < 2 THEN [improvements |-> <<>>, regressions |-> <<>>]
    ELSE CompareRuns(getCriterionResultsForRun(runs[1]),
                     getCriterionResultsForRun(runs[Len(runs)]))

\* buildComparison (lines 32-61) for an existing agent
buildComparison(runs) ==
    LET completed == CompletedRuns(runs)
        changes == computeChanges(completed)
    IN  [improvements |-> changes.improvements,
         regressions |-> changes.regressions,
         testRunMetrics |-> [i \in 1..Len(completed) |->
                                IF completed[i].overallPassRate = NoRate THEN ZeroRate
                                ELSE completed[i].overallPassRate]]

InitCmp ==
    /\ CycleIdle
    /\ sm = SMIdle
    /\ rb = RetryIdle
    /\ pr = RateIdle
    /\ df = DiffIdle
    /\ ev = EvalIdle
    /\ rq = RoutesIdle
    /\ ex = ExecIdle
    /\ su = SuiteIdle
    /\ mc = TwoIdle
    /\ cb \in {[CmpIdle EXCEPT !.runs = runs] : runs \in SeqsUpTo(RunRows, MaxComparedRuns)}

CallBuildComparison ==
    /\ cb.pc = "idle"
    /\ LET data == buildComparison(cb.runs)
       IN  cb' = [cb EXCEPT !.pc = "returned",
                            !.improvements = data.improvements,
                            !.regressions = data.regressions,
                            !.testRunMetrics = data.testRunMetrics]
    /\ UNCHANGED notCmp

NextCmp == CallBuildComparison

SpecCmp == InitCmp /\ [][NextCmp]_vars

-----------------------------------------------------------------------------
(* Test suites: TestGeneratorService.generateTestSuite and                 *)
(* PUT /api/test-suites/:id.  A TestCase row is its scenarioType and the   *)
(* number of SuccessCriterion rows that reference it; the TestCase table   *)
(* of the suite is the bag of its rows, and a request names a row by its   *)
(* value, rows of one value being interchangeable.                         *)

MIN_TEST_CASES == 5
MaxSuiteCases == 6
MaxCaseCriteria == 1

notSuite == <<cycleVars, sm, rb, pr, df, ev, rq, mc, cb, ex>>

VALID_SCENARIO_TYPES == {"happy-path", "adversarial"}

\* what the LLM or a request body can carry as scenarioType
ScenarioTypes == VALID_SCENARIO_TYPES \cup {"edge"}

\* test cases as the LLM returns them or as a request body carries them
RawTestCases == [scenarioType : ScenarioTypes, successCriteria : 0..MaxCaseCriteria]

\* the arrays the LLM returns: one case short of the minimum, or the minimum
RawTestSuites == UNION {[1..n -> RawTestCases] : n \in (MIN_TEST_CASES - 1)..MIN_TEST_CASES}

\* the array passes validateAndNormalize (it throws otherwise)
validateAndNormalize(testCases) ==
    /\ Len(testCases) >= MIN_TEST_CASES
    /\ \E k \in 1..Len(testCases) : testCases[k].scenarioType = "happy-path"
    /\ \E k \in 1..Len(testCases) : testCases[k].scenarioType = "adversarial"
    /\ \A k \in 1..Len(testCases) :
          /\ testCases[k].scenarioType \in VALID_SCENARIO_TYPES
          /\ testCases[k].successCriteria # 0

OneRow(row) == SetToBag({row})

\* the rows storeTestSuite inserts for the array, one per element
RECURSIVE storeTestSuite(_)
storeTestSuite(testCases) ==
    IF testCases = <<>> THEN EmptyBag
    ELSE storeTestSuite(Tail(testCases)) (+) OneRow(Head(testCases))

\* POST /api/test-suites/generate: the LLM's cases are validated, then stored
GenerateTestSuite(rawTestCases) ==
    /\ ~su.stored
    /\ su' = IF validateAndNormalize(rawTestCases)
                THEN [stored |-> TRUE, testCases |-> storeTestSuite(rawTestCases),
                      response |-> 201]
                ELSE [su EXCEPT !.response = 500]
    /\ UNCHANGED notSuite

\* the operations of a PUT body; testCase is the row that testCaseId or
\* criterionId leads to, data.scenarioType may be absent
SuiteOperations ==
    [type : {"addTestCase"}, data : RawTestCases]
    \cup [type : {"editTestCase"}, testCase : RawTestCases,
          scenarioType : ScenarioTypes \cup {"undefined"}]
    \cup [type : {"removeTestCase", "addCriterion", "removeCriterion"},
          testCase : RawTestCases]
    \cup [type : {"unknown"}]

\* the statement fails: CHECK on scenarioType, FOREIGN KEY on testCaseId, or an
\* unknown operation type
OperationThrows(testCases, op) ==
    \/ op.type = "unknown"
    \/ op.type = "addTestCase" /\ op.data.scenarioType \notin VALID_SCENARIO_TYPES
    \/ /\ op.type = "editTestCase"
       /\ BagIn(op.testCase, testCases)
       /\ op.scenarioType \notin VALID_SCENARIO_TYPES \cup {"undefined"}
    \/ op.type = "addCriterion" /\ ~BagIn(op.testCase, testCases)

\* one row of the table takes a new value
Replace(testCases, row, new) == (testCases (-) OneRow(row)) (+) OneRow(new)

\* the rows after the operation's statements; an id that names no row
\* updates or deletes nothing
ApplyOperation(testCases, op) ==
    CASE op.type = "addTestCase" -> testCases (+) OneRow(op.data)
      [] op.type = "editTestCase" ->
            IF BagIn(op.testCase, testCases) /\ op.scenarioType # "undefined"
            THEN Replace(testCases, op.testCase,
                         [op.testCase EXCEPT !.scenarioType = op.scenarioType])
            ELSE testCases
      [] op.type = "removeTestCase" -> testCases (-) OneRow(op.testCase)
      [] op.type = "addCriterion" ->
            Replace(testCases, op.testCase, [op.testCase EXCEPT !.successCriteria = @ + 1])
      [] op.type = "removeCriterion" ->
            IF BagIn(op.testCase, testCases) /\ op.testCase.successCriteria > 0
            THEN Replace(testCases, op.testCase,
                         [op.testCase EXCEPT !.successCriteria = @ - 1])
            ELSE testCases

\* the model keeps at most MaxSuiteCases rows with at most MaxCaseCriteria criteria
WithinSuiteBounds(testCases, op) ==
    /\ op.type = "addTestCase" => BagCardinality(testCases) < MaxSuiteCases
    /\ op.type = "addCriterion" => op.testCase.successCriteria < MaxCaseCriteria

\* PUT /api/test-suites/:id with one operation: 404 without the suite, 500 and
\* a rolled back transaction when the operation throws, else the rows change
PutTestSuite(op) ==
    /\ WithinSuiteBounds(su.testCases, op)
    /\ su' = IF ~su.stored THEN [su EXCEPT !.response = 404]
              ELSE IF OperationThrows(su.testCases, op) THEN [su EXCEPT !.response = 500]
              ELSE [su EXCEPT !.testCases = ApplyOperation(su.testCases, op),
                              !.response = 200]
    /\ UNCHANGED notSuite

\* PUT /api/test-suites/:id without operations
PutTestSuiteEmpty ==
    /\ su' = [su EXCEPT !.response = IF su.stored THEN 400 ELSE 404]
    /\ UNCHANGED notSuite

NextSuite ==
    \/ \E rawTestCases \in RawTestSuites : GenerateTestSuite(rawTestCases)
    \/ \E op \in SuiteOperations : PutTestSuite(op)
    \/ PutTestSuiteEmpty

SpecSuite == Init /\ [][NextSuite]_vars

-----------------------------------------------------------------------------
(* TestExecutorService.executeTestCase, one step per await                 *)

MaxTurns == 3

notExec == <<cycleVars, sm, rb, pr, df, ev, rq, mc, cb, su>>

Utterances == {"hello", "refund"}

\* the elements of testCase.userInputSequence
UserInputs == [turn : 1..MaxTurns, utterance : Utterances]

\* err.message of what the loop can throw; "" stands for an absent or empty one
ErrorMessages == {"", "timeout"}

\* the reply text the collaborator builds around the utterance
MockUtterance(utterance) == <<"[Mock agent response to", utterance, "based on prompt]">>

simulateAgentResponse(input) == [turn |-> input.turn, utterance |-> MockUtterance(input.utterance)]

\* the object of the return after the loop
executeTestCaseReturn(agentResponses) ==
    [status |-> "completed", agentResponses |-> agentResponses, criterionResults |-> <<>>,
     errorMessage |-> ""]

\* the catch block returning the responses collected so far
executeTestCaseCatch_KeepResponses(agentResponses, message) ==
    [status |-> "error", agentResponses |-> agentResponses, criterionResults |-> <<>>,
     errorMessage |-> IF message = "" THEN "Unknown execution error" ELSE message]

\* the object the catch block returns
executeTestCaseCatch(agentResponses, message) ==
    [status |-> "error", agentResponses |-> <<>>, criterionResults |-> <<>>,
     errorMessage |-> IF message = "" THEN "Unknown execution error" ELSE message]

\* the call arrives at the first await, or returns at once without input
executeTestCaseBegin ==
    /\ ex.pc = "idle"
    /\ ex' = IF ex.userInputSequence = <<>>
                THEN [ex EXCEPT !.pc = "returned", !.result = executeTestCaseReturn(<<>>)]
                ELSE [ex EXCEPT !.pc = "await", !.sent = <<ex.userInputSequence[1]>>]
    /\ UNCHANGED notExec

\* the awaited response arrives: it is pushed, and the loop sends the next
\* turn or the function returns
SimulateResolves ==
    /\ ex.pc = "await"
    /\ LET i == Len(ex.sent)
           agentResponses == Append(ex.agentResponses, simulateAgentResponse(ex.sent[i]))
       IN  ex' = IF i < Len(ex.userInputSequence)
                   THEN [ex EXCEPT !.agentResponses = agentResponses,
                                   !.sent = Append(@, ex.userInputSequence[i + 1])]
                   ELSE [ex EXCEPT !.agentResponses = agentResponses, !.pc = "returned",
                                   !.result = executeTestCaseReturn(agentResponses)]
    /\ UNCHANGED notExec

\* the awaited call throws: the catch block returns
SimulateRejects(message) ==
    /\ ex.pc = "await"
    /\ ex' = [ex EXCEPT !.pc = "returned",
                        !.result = executeTestCaseCatch(ex.agentResponses, message)]
    /\ UNCHANGED notExec

InitExec ==
    /\ CycleIdle
    /\ sm = SMIdle /\ rb = RetryIdle /\ pr = RateIdle /\ df = DiffIdle /\ ev = EvalIdle
    /\ rq = RoutesIdle /\ mc = TwoIdle /\ cb = CmpIdle /\ su = SuiteIdle
    /\ ex \in {[ExecIdle EXCEPT !.userInputSequence = inputs] :
                  inputs \in SeqsUpTo(UserInputs, MaxTurns)}

NextExec ==
    \/ executeTestCaseBegin
    \/ SimulateResolves
    \/ \E message \in ErrorMessages : SimulateRejects(message)

SpecExec == InitExec /\ [][NextExec]_vars

----------------------------------------------------------------------------
(* Properties of the cycle loop                                            *)

Stopped(pc) == pc \in {"done", "error"}

RunMeets(i, threshold) ==
    /\ testRuns[i].status = "completed"
    /\ RateGE(testRuns[i].overallPassRate, threshold)

RunBelow(i, threshold) ==
    /\ testRuns[i].status = "completed"
    /\ ~RateGE(testRuns[i].overallPassRate, threshold)

\* C1: a cycle started with maxCycles = M never has more than M test runs
\* started, whatever cancel, pause and resume requests arrive.
C1_AtMostMaxCyclesTestRuns ==
    cycle.exists => Len(testRuns) <= cycle.maxCycles

C1_Witness ==
    /\ cycle.exists
    /\ cycle.maxCycles >= 2
    /\ Len(testRuns) = cycle.maxCycles
    /\ hist.requested

\* C2: provided every awaited executor, evaluator and optimizer call resolves
\* or rejects, a loop invocation that is in progress eventually stops.
C2_LoopEventuallyStops ==
    LoopActive(loop.pc) ~> Stopped(loop.pc)

C2_Witness ==
    /\ loop.pc = "done"
    /\ loop.cycleCount >= 2
    /\ Len(optRecords) >= 1

\* C3: with no cancel or pause request and no error, if every test run stays
\* below the threshold, the loop (maxCycles = M >= 1) stops with persisted
\* cycleCount = M and status completed, after at most M-1 optimizer calls,
\* none of them in iteration M.
C3_CapReached ==
    (/\ cycle.exists
     /\ cycle.maxCycles >= 1
     /\ ~hist.requested
     /\ \A i \in 1..Len(testRuns) : RunBelow(i, cycle.targetThreshold))
    => /\ loop.pc = "optimize" => loop.cycleCount < cycle.maxCycles
       /\ \A j \in 1..Len(optRecords) : optRecords[j].testRunId < cycle.maxCycles
       /\ loop.pc = "done" =>
             /\ cycle.cycleCount = cycle.maxCycles
             /\ cycle.status = "completed"
             /\ hist.optCalls <= cycle.maxCycles - 1

C3_Witness ==
    /\ loop.pc = "done"
    /\ ~hist.requested
    /\ cycle.maxCycles >= 2
    /\ \A i \in 1..Len(testRuns) : RunBelow(i, cycle.targetThreshold)
    /\ cycle.cycleCount = cycle.maxCycles
    /\ hist.optCalls = cycle.maxCycles - 1

\* C4: if the test run of iteration k < maxCycles is the first whose pass rate
\* reaches the threshold, the loop has stopped with persisted cycleCount = k
\* and status completed, without an optimizer call in iteration k and
\* without a further test run.
C4_ThresholdStops ==
    cycle.exists =>
      \A k \in 1..Len(testRuns) :
        (/\ k < cycle.maxCycles
         /\ RunMeets(k, cycle.targetThreshold)
         /\ \A i \in 1..(k - 1) : RunBelow(i, cycle.targetThreshold))
        => /\ loop.pc = "done"
           /\ cycle.status = "completed"
           /\ cycle.cycleCount = k
           /\ Len(testRuns) = k
           /\ hist.optCalls <= k - 1
           /\ \A j \in 1..Len(optRecords) : optRecords[j].testRunId # k

C4_Witness ==
    /\ cycle.exists
    /\ Len(testRuns) >= 1
    /\ Len(testRuns) < cycle.maxCycles
    /\ RunMeets(Len(testRuns), cycle.targetThreshold)
    /\ testRuns[Len(testRuns)].overallPassRate = cycle.targetThreshold
    /\ cycle.status = "completed"

\* C5: a cancelCycle accepted while an iteration is in progress leads to that
\* iteration's test run being completed and to the final persisted status
\* cancelled.
C5_CancelMidIterationEndsCancelled ==
    (hist.cancelIter > 0 /\ loop.pc = "done")
    => /\ testRuns[hist.cancelIter].status = "completed"
       /\ cycle.status = "cancelled"

\* C6: cancel and pause act only through the flag read at the top of an
\* iteration: a request changes nothing but the flag, and whenever the loop
\* stops as cancelled or paused every test run of the cycle is completed with
\* its pass rate and all its results, and every optimizer call made has
\* produced an accepted record whose revised prompt is the agent's prompt.
C6_StopLeavesNothingInFlight ==
    /\ \A i \in 1..Len(testRuns') :
          /\ testRuns'[i].status = "completed"
          /\ testRuns'[i].overallPassRate # NoRate
          /\ Len(testRuns'[i].results) = Len(TestCases)
    /\ cycle'.testRunIds = [i \in 1..Len(testRuns') |-> i]
    /\ Len(optRecords') = hist'.optCalls
    /\ \A j \in 1..Len(optRecords') : optRecords'[j].status = "accepted"
    /\ optRecords' # <<>> => agentPrompt' = optRecords'[Len(optRecords')].revisedPrompt

C6_Cooperative ==
    [][ /\ (cycle.status = "running" /\ cycle'.status \in {"cancelled", "paused"})
           => (stateFlag = cycle'.status /\ C6_StopLeavesNothingInFlight)
        /\ (cycle.exists /\ stateFlag' # stateFlag)
           => UNCHANGED <<cycle, loop, testRuns, optRecords, agentPrompt, events>>
      ]_vars

C6_Witness ==
    /\ cycle.status = "cancelled"
    /\ hist.cancelIter = cycle.cycleCount
    /\ Len(cycle.optimizationIds) >= 1
    /\ Len(cycle.testRunIds) = cycle.cycleCount

\* C7: once the loop has persisted paused, an accepted resumeCycle starts a
\* new loop invocation that continues the cycle.
C7_ResumeStartsLoop ==
    [][ (hist'.resumed /\ ~hist.resumed) => LoopActive(loop'.pc) ]_vars

\* C8: every change of the persisted status of a CycleRecord is an edge
\* running->paused|cancelled|completed or paused->running|cancelled; a record
\* persisted as completed or cancelled never changes status again.
C8_PersistedStatusFollowsTable ==
    [][ (cycle.exists /\ cycle'.status # cycle.status)
        => \/ /\ cycle.status = "running"
              /\ cycle'.status \in {"paused", "cancelled", "completed"}
           \/ /\ cycle.status = "paused"
              /\ cycle'.status \in {"running", "cancelled"}
      ]_vars

C8_Witness ==
    /\ cycle.status = "completed"
    /\ stateFlag = "cancelled"
    /\ cycle.cycleCount >= 2

----------------------------------------------------------------------------
(* Properties of the status state machine functions                        *)

\* C9: transitionCycleStatus returns the requested status for exactly the
\* five pairs running->paused, running->cancelled, running->completed,
\* paused->running, paused->cancelled, and throws for the other eleven.
C9_CycleTransitionTable ==
    sm.cyc.result # Pending =>
        IF <<sm.cyc.current, sm.cyc.next>> \in
              { <<"running", "paused">>, <<"running", "cancelled">>,
                <<"running", "completed">>, <<"paused", "running">>,
                <<"paused", "cancelled">> }
        THEN sm.cyc.result = Returned(sm.cyc.next)
        ELSE sm.cyc.result = Threw

C9_Witness ==
    /\ sm.cyc.current = "completed"
    /\ sm.cyc.next = "running"
    /\ sm.cyc.result = Threw

\* C10: transitionOptimizationStatus returns the requested status for exactly
\* generated->accepted and generated->rejected, and throws for the other
\* seven pairs.
C10_OptimizationTransitionTable ==
    sm.opt.result # Pending =>
        IF <<sm.opt.current, sm.opt.next>> \in
              { <<"generated", "accepted">>, <<"generated", "rejected">> }
        THEN sm.opt.result = Returned(sm.opt.next)
        ELSE sm.opt.result = Threw

C10_Witness ==
    /\ sm.opt.current = "accepted"
    /\ sm.opt.next = "accepted"
    /\ sm.opt.result = Threw

----------------------------------------------------------------------------
(* Properties of the control requests                                      *)

AllowedCyclePairs ==
    { <<"running", "paused">>, <<"running", "cancelled">>, <<"running", "completed">>,
      <<"paused", "running">>, <<"paused", "cancelled">> }

RequestTarget(call) ==
    CASE call \in {"cancelCycle", "cancelCycle threw"} -> "cancelled"
      [] call \in {"pauseCycle", "pauseCycle threw"}   -> "paused"
      [] call \in {"resumeCycle", "resumeCycle threw"} -> "running"

\* C11: cancelCycle, pauseCycle and resumeCycle throw exactly when the
\* persisted status does not allow the transition to cancelled, paused or
\* running, and a call that throws changes neither the flag nor any persisted
\* row; the flag of a cycle persisted as completed or cancelled never changes.
C11_RejectedRequestChangesNothing ==
    [][ /\ (hist'.lastCall # hist.lastCall
            /\ hist'.lastCall \in {"cancelCycle threw", "pauseCycle threw",
                                   "resumeCycle threw"})
           => /\ <<cycle.status, RequestTarget(hist'.lastCall)>> \notin AllowedCyclePairs
              /\ UNCHANGED <<cycle, stateFlag, loop, testRuns, optRecords,
                             agentPrompt, events>>
        /\ (hist'.lastCall # hist.lastCall
            /\ hist'.lastCall \in {"cancelCycle", "pauseCycle", "resumeCycle"})
           => <<cycle.status, RequestTarget(hist'.lastCall)>> \in AllowedCyclePairs
        /\ (cycle.exists /\ stateFlag' # stateFlag)
           => <<cycle.status, stateFlag'>> \in AllowedCyclePairs
      ]_vars

C11_Witness ==
    /\ hist.lastCall = "cancelCycle threw"
    /\ cycle.status = "completed"
    /\ stateFlag = "running"

----------------------------------------------------------------------------
(* Properties of the optimization step                                     *)

RunFailures(i) == getResultsForRun(Cur, i).failures

\* C12: the optimizer is never in flight for a run without a failed criterion
\* result; a completed run below the threshold that has none gets no
\* optimization record, raises no error, and (no cancel or pause requested,
\* cap not reached) is followed by the next iteration's test run.
C12_NoOptimizeWithoutFailures ==
    /\ loop.pc = "optimize" => RunFailures(loop.run.testRunId) # <<>>
    /\ \A i \in 1..Len(testRuns) :
          (RunBelow(i, cycle.targetThreshold) /\ RunFailures(i) = <<>>)
          => /\ \A j \in 1..Len(optRecords) : optRecords[j].testRunId # i
             /\ i = Len(testRuns) => loop.pc # "error"
             /\ (i < cycle.maxCycles /\ ~hist.requested) => Len(testRuns) > i

C12_Witness ==
    /\ Len(testRuns) = 2
    /\ RunBelow(1, cycle.targetThreshold)
    /\ RunFailures(1) = <<>>
    /\ \A k \in 1..Len(TestCases) : testRuns[1].results[k].status = "error"
    /\ hist.optCalls = 0

----------------------------------------------------------------------------
(* Properties of the LLM client                                            *)

\* C13: retryWithBackoff calls fn at most maxRetries + 1 times; it returns the
\* first value fn resolves with and calls fn no more; after failed attempt a
\* (from 0) it sleeps initialDelayMs * 2^a exactly when a < maxRetries; when
\* all maxRetries + 1 attempts fail it throws the error of the last one.
C13_RetryWithBackoff ==
    rb.pc # "idle" =>
      /\ rb.calls <= rb.maxRetries + 1
      /\ rb.calls = Len(rb.errors) + Len(rb.replies) + (IF rb.pc = "call" THEN 1 ELSE 0)
      /\ Len(rb.replies) <= 1
      /\ \A k \in 1..Len(rb.delays) : rb.delays[k] = rb.initialDelayMs * 2^(k - 1)
      /\ rb.pc = "call" => (rb.replies = <<>> /\ Len(rb.delays) = Len(rb.errors))
      /\ rb.pc = "sleep" =>
            /\ rb.replies = <<>>
            /\ Len(rb.delays) = Len(rb.errors)
            /\ Len(rb.errors) <= rb.maxRetries
      /\ rb.pc = "returned" =>
            /\ rb.replies = <<rb.result>>
            /\ Len(rb.delays) = Len(rb.errors)
      /\ rb.pc = "thrown" =>
            /\ rb.replies = <<>>
            /\ Len(rb.errors) = rb.maxRetries + 1
            /\ Len(rb.delays) = rb.maxRetries
            /\ rb.result = rb.errors[Len(rb.errors)]

C13_Witness ==
    /\ rb.pc = "thrown"
    /\ rb.maxRetries = 3
    /\ rb.initialDelayMs = 1000
    /\ rb.delays = <<1000, 2000, 4000>>
    /\ rb.errors = <<"aborted", "aborted", "aborted", "empty response">>
    /\ rb.result = "empty response"

\* C14: a reply that cannot be decoded is retried like a transport failure:
\* the operation fails only after maxRetries + 1 remote calls.
C14_UndecodableReplyIsRetried ==
    rb.op = "rejected" => rb.calls = rb.maxRetries + 1

----------------------------------------------------------------------------
(* Properties of the pass rate                                             *)

\* the criterion results that count: those of completed cases
CountedCriteria(results) ==
    UNION { {<<i, j>> : j \in 1..Len(results[i].criterionResults)} :
               i \in {k \in 1..Len(results) : results[k].status = "completed"} }

\* C15: calculatePassRate returns passed / total over the criterion results of
\* the completed cases only, a value in [0, 1], and exactly 0 when there is no
\* such criterion result; criterion results of error cases never count.
C15_PassRateOverCompletedCases ==
    pr.pc = "done" =>
      LET results == pr.testCaseResults
          counted == CountedCriteria(results)
          total == Cardinality(counted)
          passed == Cardinality({ij \in counted :
                                    results[ij[1]].criterionResults[ij[2]].passed})
      IN  /\ pr.result[2] > 0
          /\ 0 <= pr.result[1] /\ pr.result[1] <= pr.result[2]
          /\ total = 0 => pr.result = <<0, 1>>
          /\ total > 0 => pr.result[1] * total = passed * pr.result[2]

C15_Witness ==
    /\ pr.pc = "done"
    /\ pr.result = <<1, 2>>
    /\ \E i \in 1..Len(pr.testCaseResults) :
          /\ pr.testCaseResults[i].status = "error"
          /\ \E j \in 1..Len(pr.testCaseResults[i].criterionResults) :
                pr.testCaseResults[i].criterionResults[j].passed

----------------------------------------------------------------------------
(* Properties of the diff                                                  *)

\* C16: computeDiff returns the empty list when the two strings are equal,
\* and for two distinct strings a non-empty list holding at least one added
\* or removed entry.
C16_DiffEmptyIffEqual ==
    df.pc = "returned" =>
      /\ df.original = df.revised => df.changes = <<>>
      /\ df.original # df.revised =>
            \E k \in 1..Len(df.changes) : df.changes[k].type \in {"added", "removed"}

C16_Witness ==
    /\ df.pc = "returned"
    /\ df.original # df.revised
    /\ \E k \in 1..Len(df.changes) : df.changes[k].type = "context"
    /\ \E k \in 1..Len(df.changes) : df.changes[k].type = "added"
    /\ \E k \in 1..Len(df.changes) : df.changes[k].type = "removed"

----------------------------------------------------------------------------
(* Properties of the evaluator                                             *)

NonBlank(explanation) ==
    /\ explanation # Undefined
    /\ \E k \in 1..Len(explanation) : explanation[k] \notin Whitespace

\* C17: every failed CriterionResult the evaluator returns has an explanation
\* that is present and not blank, whatever explanation the Client returned;
\* the results are those of the criteria, in order.
C17_FailedResultsAreExplained ==
    /\ \A k \in 1..Len(ev.results) :
          /\ ev.results[k].criterionId = ev.criteria[k].id
          /\ ev.results[k].passed = ev.replies[k].passed
          /\ ~ev.results[k].passed => NonBlank(ev.results[k].explanation)
    /\ ev.pc = "returned" => Len(ev.results) = Len(ev.criteria)
    /\ \A i \in 1..Len(testRuns) : \A k \in 1..Len(testRuns[i].results) :
          LET crs == testRuns[i].results[k].criterionResults
          IN  \A j \in 1..Len(crs) : ~crs[j].passed => NonBlank(crs[j].explanation)

C17_Witness ==
    /\ ev.pc = "returned"
    /\ Len(ev.results) = 2
    /\ ~ev.replies[1].passed /\ ev.replies[1].explanation = <<" ", " ">>
    /\ ev.results[1].explanation = NotMetExplanation(ev.criteria[1].description)
    /\ ~ev.replies[2].passed /\ ev.replies[2].explanation = Undefined
    /\ ev.criteria[2].description = <<>>

----------------------------------------------------------------------------
(* Properties of failures inside an iteration                              *)

\* the rate r is passed / total over the completed cases of results
IsRateOverCompleted(r, results) ==
    LET counted == CountedCriteria(results)
        total == Cardinality(counted)
        passed == Cardinality({ij \in counted :
                                  results[ij[1]].criterionResults[ij[2]].passed})
    IN  IF total = 0 THEN r = <<0, 1>>
        ELSE r # NoRate /\ r[1] * total = passed * r[2]

\* C18: a test case whose execution fails is stored with status error and no
\* criterion results, and the run goes on with the next case (or completes
\* if it was the last); every completed run holds one result per test case
\* of the suite, in order, and its overallPassRate is the rate over its
\* completed cases only.
C18_ExecutionErrorIsContained ==
    [][ /\ (loop.pc = "execCase" /\ loop' # loop)
           => LET id == loop.run.testRunId
                  k == loop.run.caseIdx
              IN  \/ /\ loop'.pc = "evalCase"
                     /\ loop'.run.result.status = "completed"
                     /\ testRuns' = testRuns
                  \/ /\ Len(testRuns'[id].results) = k
                     /\ testRuns'[id].results[k].status = "error"
                     /\ testRuns'[id].results[k].testCaseId = TestCases[k].id
                     /\ testRuns'[id].results[k].criterionResults = <<>>
                     /\ loop'.pc # "error"
                     /\ k < Len(TestCases)
                          => /\ loop'.pc = "execCase"
                             /\ loop'.run.testRunId = id
                             /\ loop'.run.caseIdx = k + 1
                     /\ k = Len(TestCases) => testRuns'[id].status = "completed"
        /\ \A i \in 1..Len(testRuns') :
              testRuns'[i].status = "completed"
              => /\ Len(testRuns'[i].results) = Len(TestCases)
                 /\ \A k \in 1..Len(TestCases) :
                       testRuns'[i].results[k].testCaseId = TestCases[k].id
                 /\ IsRateOverCompleted(testRuns'[i].overallPassRate, testRuns'[i].results)
      ]_vars

C18_Witness ==
    /\ Len(testRuns) >= 1
    /\ testRuns[1].status = "completed"
    /\ testRuns[1].results[1].status = "error"
    /\ testRuns[1].results[2].status = "completed"
    /\ testRuns[1].results[2].criterionResults[1].passed
    /\ testRuns[1].overallPassRate = <<1, 1>>

\* C19: when an awaited step of an iteration rejects, the loop stops in
\* error: exactly one error event is emitted, as the last event, and no
\* finished event; the CycleRecord row is left as it was, its status still
\* running and never completed; nothing happens to it afterwards.
C19_ErrorLeavesRecordAsPersisted ==
    [][ loop'.pc = "error"
        => /\ cycle' = cycle
           /\ cycle'.status = "running"
           /\ \A k \in 1..Len(events') : events'[k].type # "finished"
           /\ Cardinality({k \in 1..Len(events') : events'[k].type = "error"}) = 1
           /\ events'[Len(events')].type = "error"
           /\ loop.pc # "error"
                => /\ LoopActive(loop.pc)
                   /\ events' = Append(events, Event("error", 0, NoRate, ""))
                   /\ UNCHANGED <<testRuns, optRecords, agentPrompt, stateFlag>>
           /\ loop.pc = "error" => UNCHANGED <<loop, events, testRuns, optRecords, agentPrompt>>
      ]_vars

C19_Witness ==
    /\ loop.pc = "error"
    /\ Len(testRuns) = 2
    /\ Len(optRecords) = 1
    /\ testRuns[2].status = "running"
    /\ cycle.status = "running"
    /\ cycle.cycleCount = 0

----------------------------------------------------------------------------
(* Properties of stored test runs                                          *)

\* C20: a TestRun row whose status is completed is never changed again:
\* neither its overallPassRate, nor its stored results, nor its
\* promptSnapshot.
C20_CompletedRunIsImmutable ==
    [][ \A i \in 1..Len(testRuns) :
          testRuns[i].status = "completed"
          => (i <= Len(testRuns') /\ testRuns'[i] = testRuns[i])
      ]_vars

\* the stored results of run i that belong to the test case k of the suite
ResultsOfCase(i, k) ==
    {n \in 1..Len(testRuns[i].results) :
        testRuns[i].results[n].testCaseId = TestCases[k].id}

\* C21: in every state, a completed TestRun holds exactly one TestCaseResult
\* for each test case of its suite, also while a retry is being handled.
C21_OneResultPerCase ==
    \A i \in 1..Len(testRuns) :
        testRuns[i].status = "completed"
        => \A k \in 1..Len(TestCases) : Cardinality(ResultsOfCase(i, k)) = 1

\* C22: every test case of a run, and every retried test case, is executed
\* against the run's stored promptSnapshot, which is the prompt read when the
\* run started and is never rewritten, whatever Agent.currentPrompt has
\* become meanwhile.
C22_CasesRunAgainstSnapshot ==
    /\ [](/\ loop.pc = "execCase"
             => loop.run.sent = testRuns[loop.run.testRunId].promptSnapshot
          /\ rq.run.pc = "execCase"
             => rq.run.sent = testRuns[rq.run.testRunId].promptSnapshot
          /\ rq.retry.pc = "execCase"
             => rq.retry.sent = testRuns[rq.retry.testRunId].promptSnapshot)
    /\ [][\A i \in 1..Len(testRuns) :
              /\ i <= Len(testRuns')
              /\ testRuns'[i].promptSnapshot = testRuns[i].promptSnapshot]_vars

\* the second test case of the loop's second run is being executed after the
\* agent's prompt was changed during that run
C22_Witness ==
    /\ loop.pc = "execCase"
    /\ loop.run.testRunId = 2
    /\ loop.run.caseIdx = 2
    /\ agentPrompt # testRuns[loop.run.testRunId].promptSnapshot

\* C23: no stored OptimizationRecord has a revisedPrompt identical to its
\* originalPrompt: a revision that repeats the original is an error and is
\* neither stored nor applied.
C23_RevisedPromptDiffers ==
    \A j \in 1..Len(optRecords) :
        optRecords[j].revisedPrompt # optRecords[j].originalPrompt

\* C24: in every state the persisted CycleRecord lists as many test runs as it
\* counts cycles, however the cycle stopped (threshold, cap, cancel, pause) or
\* was interrupted by an error.
C24_TestRunIdsMatchCycleCount ==
    cycle.exists => Len(cycle.testRunIds) = cycle.cycleCount

\* a cycle stopped by a cancel or a pause after at least one full iteration
C24_Witness ==
    /\ cycle.status \in {"cancelled", "paused"}
    /\ cycle.cycleCount >= 1
    /\ Len(cycle.testRunIds) = cycle.cycleCount

\* the pass rate of the latest test run listed in a CycleRecord, 0 without one
LatestPassRate(record, runs) ==
    IF record.testRunIds = <<>> THEN ZeroRate
    ELSE LET rate == runs[record.testRunIds[Len(record.testRunIds)]].overallPassRate
         IN  IF rate = NoRate THEN ZeroRate ELSE rate

\* C25: the startingPassRate is fixed before the first iteration: the loop's
\* value never changes and every write of the CycleRecord stores the value
\* the record was created with, never a measured pass rate, while the
\* endingPassRate written is the pass rate of the latest test run.
C25_StartingPassRateIsFixed ==
    [][/\ loop.pc # "none" => loop'.startingPassRate = loop.startingPassRate
       /\ cycle.exists /\ cycle' # cycle
          => /\ cycle'.startingPassRate = cycle.startingPassRate
             /\ cycle'.startingPassRate = loop.startingPassRate
             /\ cycle'.endingPassRate = LatestPassRate(cycle', testRuns')]_vars

\* a record written after two test runs whose pass rates were not zero
C25_Witness ==
    /\ cycle.status \in {"completed", "cancelled", "paused"}
    /\ cycle.cycleCount = 2
    /\ testRuns[1].overallPassRate # ZeroRate
    /\ cycle.endingPassRate # ZeroRate
    /\ cycle.startingPassRate = ZeroRate

\* the records the loop created and accepted itself
LoopRecordIds == {loop.optimizationIds[n] : n \in 1..Len(loop.optimizationIds)}

\* C26: applying an optimization succeeds only for a record in status
\* generated, and then sets the record to accepted and the agent's prompt to
\* its revisedPrompt; for a record already accepted or rejected, one the loop
\* accepted included, the request is answered as an invalid transition and
\* neither the agent's prompt nor any record changes.
C26_ApplyOnlyFromGenerated ==
    [][/\ \A st \in {"accepted", "rejected"} :
             transitionOptimizationStatus(st, "accepted").threw
       /\ rq'.apply # rq.apply
          => LET id == rq'.apply.id IN
             IF id \notin 1..Len(optRecords)
             THEN /\ rq'.apply.response = "404"
                  /\ UNCHANGED <<optRecords, agentPrompt>>
             ELSE IF optRecords[id].status = "generated"
             THEN /\ rq'.apply.response = "200"
                  /\ optRecords' = [optRecords EXCEPT ![id].status = "accepted"]
                  /\ agentPrompt' = optRecords[id].revisedPrompt
             ELSE /\ rq'.apply.response = "400 INVALID_TRANSITION"
                  /\ UNCHANGED <<optRecords, agentPrompt>>
       /\ rq'.apply = rq.apply /\ rq'.optimize = rq.optimize /\ UNCHANGED <<loop, cycle>>
          => UNCHANGED <<optRecords, agentPrompt>>]_vars

\* a record generated over HTTP has been applied, and applying a record the
\* loop had accepted was then answered as an invalid transition
C26_Witness ==
    /\ rq.apply.response = "400 INVALID_TRANSITION"
    /\ rq.apply.id \in LoopRecordIds
    /\ \E j \in 1..Len(optRecords) :
          /\ j \notin LoopRecordIds
          /\ optRecords[j].status = "accepted"
          /\ optRecords[j].revisedPrompt # optRecords[j].originalPrompt

\* C27: once a cancel has been accepted for a running cycle, no later pause or
\* resume replaces the cancelled flag, and the loop's next flag check stops
\* the cycle as cancelled, never as paused.
C27_CancelIsNotLost ==
    [][stateFlag = "cancelled" /\ LoopActive(loop.pc)
       => /\ stateFlag' = "cancelled"
          /\ cycle'.status # "paused"]_vars

\* C28: a cancel accepted for a cycle whose persisted status is paused leads to
\* the persisted status of the CycleRecord becoming cancelled.
C28_CancelOfPausedCycleIsPersisted ==
    (hist.lastCall = "cancelCycle" /\ cycle.status = "paused")
        ~> (cycle.status = "cancelled")

C30_RecordWrittenOnlyAtStop ==
    [][/\ LoopActive(loop'.pc)
          => /\ cycle'.status = "running"
             /\ cycle'.cycleCount = 0
             /\ cycle'.testRunIds = <<>>
             /\ cycle'.optimizationIds = <<>>
       /\ cycle.exists /\ cycle' # cycle
          => LoopActive(loop.pc) /\ loop'.pc = "done"]_vars

\* the second iteration is in progress after a test run and an optimization,
\* and the persisted record still shows none of it
C30_Witness ==
    /\ LoopActive(loop.pc)
    /\ loop.cycleCount = 2
    /\ Len(loop.testRunIds) = 1
    /\ Len(loop.optimizationIds) = 1
    /\ cycle.status = "running"
    /\ cycle.cycleCount = 0

\* C31: when the loop's optimizer call returns, the new OptimizationRecord is
\* accepted and the agent's prompt is its revisedPrompt by the time
\* optimization_complete is emitted and the next test run starts; with no
\* other writer of the prompt, the promptSnapshot of iteration n+1 is the
\* revised prompt produced in iteration n.
C31_RevisedPromptFeedsNextRun ==
    /\ [][loop.pc = "optimize" /\ Len(optRecords') > Len(optRecords)
          => LET id == Len(optRecords')
                 rec == optRecords'[id]
             IN  /\ id = Len(optRecords) + 1
                 /\ rec.status = "accepted"
                 /\ rec.testRunId = loop.run.testRunId
                 /\ agentPrompt' = rec.revisedPrompt
                 /\ Len(events') > Len(events)
                 /\ events'[Len(events) + 1] =
                        Event("optimization_complete", loop.cycleCount, NoRate, "")
                 /\ Len(testRuns') > Len(testRuns)
                    => /\ Len(testRuns') = rec.testRunId + 1
                       /\ testRuns'[Len(testRuns')].promptSnapshot = rec.revisedPrompt]_vars
    /\ [](\A j \in 1..Len(optRecords) :
             optRecords[j].testRunId + 1 <= Len(testRuns)
             => testRuns[optRecords[j].testRunId + 1].promptSnapshot
                   = optRecords[j].revisedPrompt)

\* the second iteration runs against a revised prompt that differs from the
\* first iteration's prompt
C31_Witness ==
    /\ Len(testRuns) = 2
    /\ Len(optRecords) = 1
    /\ optRecords[1].testRunId = 1
    /\ optRecords[1].revisedPrompt # testRuns[1].promptSnapshot
    /\ testRuns[2].promptSnapshot = optRecords[1].revisedPrompt

\* the positions of the finished and error events emitted so far
TerminalEvents == {k \in 1..Len(events) : events[k].type \in {"finished", "error"}}

\* C32: once a finished or an error event has been emitted for the cycle id
\* no further event is emitted, and each loop invocation emits exactly one
\* event of these two types: none while it is in progress, one when it has
\* stopped, and it does stop.
C32_TerminalEventClosesStream ==
    /\ [](/\ TerminalEvents \subseteq {Len(events)}
          /\ LoopActive(loop.pc) => TerminalEvents = {}
          /\ loop.pc = "done"
             => TerminalEvents # {} /\ events[Len(events)].type = "finished"
          /\ loop.pc = "error"
             => TerminalEvents # {} /\ events[Len(events)].type = "error")
    /\ [][TerminalEvents # {} => events' = events]_vars
    /\ (loop.pc # "none") ~> (TerminalEvents # {})

\* a loop paused after its first iteration and optimization has emitted its
\* one terminal event, and a resume accepted after it stopped emitted nothing
C32_Witness ==
    /\ Len(events) = 4
    /\ TerminalEvents = {Len(events)}
    /\ hist.lastCall = "resumeCycle"
    /\ loop.pc = "done"

TwoUntouched(d) ==
    /\ mc'.cycle[d] = mc.cycle[d]
    /\ mc'.stateFlag[d] = mc.stateFlag[d]
    /\ mc'.loop[d] = mc.loop[d]
    /\ mc'.testRuns[d] = mc.testRuns[d]
    /\ mc'.optRecords[d] = mc.optRecords[d]
    /\ mc'.agentPrompt[d] = mc.agentPrompt[d]
    /\ mc'.events[d] = mc.events[d]

\* C34: for two cycles running on different agents, every step of one cycle
\* (a loop step, a cancel, pause or resume, an emit) leaves the other cycle's
\* CycleRecord, flag, events, test runs and agent prompt unchanged, and an
\* existing CycleRecord row is written only by its own loop, when it stops.
C34_CyclesDoNotInterfere ==
    [][\A c \in CycleIds :
          /\ ~TwoUntouched(c) => \A d \in CycleIds \ {c} : TwoUntouched(d)
          /\ mc.cycle[c].exists /\ mc'.cycle[c] # mc.cycle[c]
             => LoopActive(mc.loop[c].pc) /\ mc'.loop[c].pc = "done"]_vars

\* both loops are in progress, one of them cancelled and with a revised
\* prompt, the other neither
C34_Witness ==
    /\ LoopActive(mc.loop[1].pc)
    /\ LoopActive(mc.loop[2].pc)
    /\ mc.stateFlag[1] = "cancelled"
    /\ mc.stateFlag[2] = "running"
    /\ mc.agentPrompt[1] # mc.agentPrompt[2]
    /\ Len(mc.events[1]) > Len(mc.events[2])

\* the k-th event may follow the events before it
EventInOrder(k) ==
    LET e == events[k]
        first == k = 1
        p == events[IF k = 1 THEN 1 ELSE k - 1]
    IN  CASE e.type = "cycle_start" ->
                IF first THEN e.cycleNumber = 1
                ELSE /\ p.type \in {"test_run_complete", "optimization_complete"}
                     /\ e.cycleNumber = p.cycleNumber + 1
          [] e.type = "test_run_complete" ->
                ~first /\ p.type = "cycle_start" /\ p.cycleNumber = e.cycleNumber
          [] e.type = "optimization_complete" ->
                /\ ~first
                /\ p.type = "test_run_complete"
                /\ p.cycleNumber = e.cycleNumber
                /\ ~RateGE(p.passRate, cycle.targetThreshold)
          [] e.type = "finished" ->
                /\ k = Len(events)
                /\ ~first => p.type \in {"test_run_complete", "optimization_complete"}
          [] e.type = "error" -> k = Len(events)
          [] OTHER -> FALSE

\* C35: the events of a loop invocation come in the order cycle_start(n),
\* test_run_complete(n), then at most one optimization_complete(n), for
\* n = 1, 2, ... increasing by one; finished comes after the
\* test_run_complete of the last started iteration; optimization_complete(n)
\* comes only after a test_run_complete(n) whose pass rate is below the
\* threshold.
C35_EventsInOrder ==
    /\ \A k \in 1..Len(events) : EventInOrder(k)
    /\ Len(events) > 0 /\ events[Len(events)].type = "cycle_start"
       => loop.pc \in {"execCase", "evalCase"}

\* two iterations with an optimization between them, then finished
C35_Witness ==
    /\ Len(events) = 6
    /\ events[3].type = "optimization_complete"
    /\ events[5] = Event("test_run_complete", 2, events[5].passRate, "")
    /\ events[6].type = "finished"

\* the positions of the agent's completed runs among its rows
CompletedAt == {i \in 1..Len(cb.runs) : cb.runs[i].status = "completed"}

\* criterion c has a result with this outcome in the i-th row
OutcomeIn(i, c, passed) ==
    \E n \in 1..Len(cb.runs[i].results) :
        cb.runs[i].results[n].criterionId = c /\ cb.runs[i].results[n].passed = passed

\* the positions at which criterion c is listed
ListedAt(list, c) == {n \in 1..Len(list) : list[n].criterionId = c}

\* C36: buildComparison compares the first and the last completed run of the
\* agent: a criterion is an improvement exactly when it failed in the first
\* and passed in the last, a regression exactly when it passed in the first
\* and failed in the last; a criterion with the same outcome in both is in
\* neither list, none is in both, and with fewer than two completed runs
\* both lists are empty.
C36_ComparisonOfFirstAndLast ==
    cb.pc = "returned"
    => IF Cardinality(CompletedAt) < 2
       THEN cb.improvements = <<>> /\ cb.regressions = <<>>
       ELSE LET first == CHOOSE i \in CompletedAt : \A j \in CompletedAt : i <= j
                last == CHOOSE i \in CompletedAt : \A j \in CompletedAt : j <= i
            IN  \A k \in 1..Len(CmpCriteria) :
                   LET c == CmpCriteria[k]
                       improved == OutcomeIn(first, c, FALSE) /\ OutcomeIn(last, c, TRUE)
                       regressed == OutcomeIn(first, c, TRUE) /\ OutcomeIn(last, c, FALSE)
                   IN  /\ Cardinality(ListedAt(cb.improvements, c)) = (IF improved THEN 1 ELSE 0)
                       /\ Cardinality(ListedAt(cb.regressions, c)) = (IF regressed THEN 1 ELSE 0)
                       /\ ListedAt(cb.improvements, c) = {} \/ ListedAt(cb.regressions, c) = {}
                       /\ \A n \in ListedAt(cb.improvements, c) :
                             ~cb.improvements[n].previousPassed /\ cb.improvements[n].currentPassed
                       /\ \A n \in ListedAt(cb.regressions, c) :
                             cb.regressions[n].previousPassed /\ ~cb.regressions[n].currentPassed

\* three completed runs: c1 went from failed to passed, c2 from passed to
\* failed, and the run between them had it the other way round
C36_Witness ==
    /\ cb.pc = "returned"
    /\ Len(cb.runs) = 3
    /\ CompletedAt = {1, 2, 3}
    /\ OutcomeIn(1, "c1", FALSE) /\ OutcomeIn(2, "c1", TRUE) /\ OutcomeIn(3, "c1", TRUE)
    /\ OutcomeIn(1, "c2", TRUE) /\ OutcomeIn(2, "c2", FALSE) /\ OutcomeIn(3, "c2", FALSE)
    /\ Len(cb.improvements) = 1 /\ cb.improvements[1].criterionId = "c1"
    /\ Len(cb.regressions) = 1 /\ cb.regressions[1].criterionId = "c2"

\* C37: a stored TestSuite always has at least 5 test cases, a happy-path and
\* an adversarial case among them, and at least one criterion for every case,
\* after generation and after every update operation.
C37_SuiteKeepsItsInvariant ==
    su.stored =>
        /\ BagCardinality(su.testCases) >= MIN_TEST_CASES
        /\ \E row \in BagToSet(su.testCases) : row.scenarioType = "happy-path"
        /\ \E row \in BagToSet(su.testCases) : row.scenarioType = "adversarial"
        /\ \A row \in BagToSet(su.testCases) : row.successCriteria >= 1

\* C38: executeTestCase returns either status completed with one response per
\* input turn in the order of the turns and no message, or status error with a
\* message, no responses and no criterion results; the turns sent are a prefix
\* of the input, all of it on completed, and nothing is sent after the return.
C38_CompleteOrPureError ==
    /\ ex.sent = SubSeq(ex.userInputSequence, 1, Len(ex.sent))
    /\ ex.pc = "returned" =>
          \/ /\ ex.result.status = "completed"
             /\ ex.sent = ex.userInputSequence
             /\ Len(ex.result.agentResponses) = Len(ex.userInputSequence)
             /\ \A k \in 1..Len(ex.userInputSequence) :
                   /\ ex.result.agentResponses[k].turn = ex.userInputSequence[k].turn
                   /\ ex.result.agentResponses[k].utterance
                        = MockUtterance(ex.userInputSequence[k].utterance)
             /\ ex.result.criterionResults = <<>>
             /\ ex.result.errorMessage = ""
          \/ /\ ex.result.status = "error"
             /\ ex.result.errorMessage # ""
             /\ ex.result.agentResponses = <<>>
             /\ ex.result.criterionResults = <<>>

\* the second turn failed after the first was answered, and an error is returned
C38_Witness ==
    /\ ex.pc = "returned"
    /\ ex.result.status = "error"
    /\ Len(ex.sent) = 2
    /\ Len(ex.agentResponses) = 1
    /\ Len(ex.userInputSequence) = 3

----------------------------------------------------------------------------
(* Properties of the diff walk                                             *)

\* the content of the entries of the given types, in order
ContentOf(changes, types) ==
    LET kept == SelectSeq(changes, LAMBDA c : c.type \in types)
    IN  [k \in 1..Len(kept) |-> kept[k].content]

\* how many of the first k entries have one of the given types
CountOf(changes, types, k) == Len(SelectSeq(SubSeq(changes, 1, k), LAMBDA c : c.type \in types))

\* the length of a longest common subsequence, by the textbook recursion
RECURSIVE LcsLength(_, _)
LcsLength(a, b) ==
    IF a = <<>> \/ b = <<>> THEN 0
    ELSE IF Head(a) = Head(b) THEN 1 + LcsLength(Tail(a), Tail(b))
    ELSE MaxOf(LcsLength(Tail(a), b), LcsLength(a, Tail(b)))

\* C39: for distinct inputs the removed and context entries are in order the
\* lines of the original, the added and context entries the lines of the
\* revised, the context entries are as many as a longest common subsequence
\* of the two line lists has, and lineNumber is the 1-based position of the
\* line in the original (removed) or in the revised (added, context).
C39_DiffReconstructsBothTexts ==
    (df.pc = "returned" /\ df.original # df.revised) =>
        /\ ContentOf(df.changes, {"removed", "context"}) = Split(df.original)
        /\ ContentOf(df.changes, {"added", "context"}) = Split(df.revised)
        /\ Len(ContentOf(df.changes, {"context"}))
             = LcsLength(Split(df.original), Split(df.revised))
        /\ \A k \in 1..Len(df.changes) :
              df.changes[k].lineNumber
                = IF df.changes[k].type = "removed"
                  THEN CountOf(df.changes, {"removed", "context"}, k)
                  ELSE CountOf(df.changes, {"added", "context"}, k)

\* a diff with two context lines, and a context line whose positions in the
\* original and in the revised differ
C39_Witness ==
    /\ df.pc = "returned"
    /\ df.original # df.revised
    /\ Len(ContentOf(df.changes, {"context"})) = 2
    /\ \E k \in 1..Len(df.changes) :
          /\ df.changes[k].type = "context"
          /\ CountOf(df.changes, {"removed", "context"}, k)
               # CountOf(df.changes, {"added", "context"}, k)

\* C40: whenever the while condition of the walk holds, the body takes one of
\* its three branches: it appends one entry and advances oi or ri, neither
\* index passes the end of its list, so the walk ends after at most
\* originalLines.length + revisedLines.length passes.
C40_WalkNeverStalls ==
    df.pc = "walk" =>
        LET d == computeDiffBody(df)
        IN  /\ Len(d.changes) = Len(df.changes) + 1
            /\ d.oi + d.ri > df.oi + df.ri
            /\ d.oi <= Len(df.originalLines)
            /\ d.ri <= Len(df.revisedLines)
            /\ d.li <= Len(df.lcs)
            /\ Len(df.changes) < Len(df.originalLines) + Len(df.revisedLines)

\* the walk has used up a two-line backbone and still has a line to consume
C40_Witness ==
    /\ df.pc = "walk"
    /\ Len(df.lcs) = 2
    /\ df.li = Len(df.lcs)
    /\ df.oi + df.ri < Len(df.originalLines) + Len(df.revisedLines)

====
